---------------------------- MODULE Spec2Model ----------------------------
(***************************************************************************)
(* A model of the bytetrack-rs tracking core: Rect geometry, the           *)
(* constant-velocity Kalman filter, STrack, the matching utilities and     *)
(* BYTETracker::update with its set reconciliation.                        *)
(*                                                                         *)
(* Records.  A record constructor lists its fields in the order the model  *)
(* checker keeps them, so that no record is ever reordered once built.     *)
(*                                                                         *)
(* Numbers.  The code computes in f32 / f64.  The model computes in fixed  *)
(* point: a length is an integer number of 1/FP pixels, an aspect ratio an *)
(* integer number of 1/FP, a variance an integer number of (1/FP)^2, an    *)
(* IoU or a cost an integer number of 1/IOUSC, a score or a configured     *)
(* threshold an integer number of 1/100.  Quotients are rounded to the     *)
(* nearest representable value, as floating point does.                    *)
(*                                                                         *)
(* Covariance.  The 8x8 covariance of the code is block structured: the    *)
(* motion matrix couples component i only with i+4 and the update matrix   *)
(* selects components 0..3, so initiate / predict / update keep every      *)
(* entry outside the four 2x2 blocks (i, i+4) exactly zero.  The model     *)
(* stores the blocks: pp[i] = P[i][i], pv[i] = P[i][i+4], vv[i] =          *)
(* P[i+4][i+4].                                                            *)
(***************************************************************************)
EXTENDS Integers, Sequences, FiniteSets, TLC

(***************************************************************************)
(* Resolution of the fixed-point representation.                           *)
(***************************************************************************)
FP == 100
IOUSC == 1000

\* round-to-nearest quotient a / b for b > 0
RDiv(a, b) ==
    IF a >= 0 THEN (2 * a + b) \div (2 * b)
              ELSE 0 - ((2 * (0 - a) + b) \div (2 * b))

Max(a, b) == IF a >= b THEN a ELSE b
Min(a, b) == IF a <= b THEN a ELSE b

(***************************************************************************)
(* track_state.rs                                                          *)
(***************************************************************************)
TrackState == {"New", "Tracked", "Lost", "Removed"}

(***************************************************************************)
(* rect.rs                                                                 *)
(***************************************************************************)
Rect_new(x, y, width, height) ==
    [x |-> x, y |-> y, width |-> width, height |-> height]

from_tlbr(x1, y1, x2, y2) ==
    [x |-> x1, y |-> y1, width |-> x2 - x1, height |-> y2 - y1]

from_xyah(cx, cy, aspect_ratio, height) ==
    LET width == RDiv(aspect_ratio * height, FP)
    IN  [x |-> cx - RDiv(width, 2), y |-> cy - RDiv(height, 2),
         width |-> width, height |-> height]

to_tlbr(r) == <<r.x, r.y, r.x + r.width, r.y + r.height>>

to_xyah(r) ==
    LET cx == r.x + RDiv(r.width, 2)
        cy == r.y + RDiv(r.height, 2)
        aspect_ratio == IF r.height > 0 THEN RDiv(r.width * FP, r.height) ELSE 0
    IN  <<cx, cy, aspect_ratio, r.height>>

area(r) == r.width * r.height

\* iou over the sum of the two areas, the intersection counted twice
iou_double_counted(a, b) ==
    LET x1 == Max(a.x, b.x)
        y1 == Max(a.y, b.y)
        x2 == Min(a.x + a.width, b.x + b.width)
        y2 == Min(a.y + a.height, b.y + b.height)
        inter_width == Max(x2 - x1, 0)
        inter_height == Max(y2 - y1, 0)
        inter_area == inter_width * inter_height
        union_area == area(a) + area(b)
    IN  IF union_area > 0 THEN RDiv(inter_area * IOUSC, union_area) ELSE 0


iou(a, b) ==
    LET x1 == Max(a.x, b.x)
        y1 == Max(a.y, b.y)
        x2 == Min(a.x + a.width, b.x + b.width)
        y2 == Min(a.y + a.height, b.y + b.height)
        inter_width == Max(x2 - x1, 0)
        inter_height == Max(y2 - y1, 0)
        inter_area == inter_width * inter_height
        union_area == area(a) + area(b) - inter_area
    IN  IF union_area > 0 THEN RDiv(inter_area * IOUSC, union_area) ELSE 0

\* an |A| x |B| matrix: its dimensions and its entries, indexed from 1
iou_batch(boxes_a, boxes_b) ==
    [rows |-> Len(boxes_a), cols |-> Len(boxes_b),
     at |-> [p \in (1..Len(boxes_a)) \X (1..Len(boxes_b)) |->
                iou(boxes_a[p[1]], boxes_b[p[2]])]]

(***************************************************************************)
(* kalman_filter.rs                                                        *)
(***************************************************************************)
\* std_weight_position = 1/20, std_weight_velocity = 1/160
InvStdWeightPosition == 20
InvStdWeightVelocity == 160

\* (k * std_weight * h)^2
VarOf(k, invw, h) == RDiv(k * k * h * h, invw * invw)
\* the h-independent deviations 1e-2, 1e-5 and 1e-1 of the aspect ratio, squared
VarAspectInit == RDiv(FP * FP, 10000)
VarAspectVel == RDiv(RDiv(FP * FP, 100000), 100000)
VarAspectProj == RDiv(FP * FP, 100)

initiate(measurement) ==
    LET h == measurement[4]
        p == VarOf(2, InvStdWeightPosition, h)
        v == VarOf(10, InvStdWeightVelocity, h)
    IN  [mean |-> <<measurement[1], measurement[2], measurement[3], measurement[4],
                    0, 0, 0, 0>>,
         covariance |-> [pp |-> <<p, p, VarAspectInit, p>>,
                         pv |-> <<0, 0, 0, 0>>,
                         vv |-> <<v, v, VarAspectVel, v>>]]

KF_predict(mean, covariance) ==
    LET h == mean[4]
        qp == VarOf(1, InvStdWeightPosition, h)
        qv == VarOf(1, InvStdWeightVelocity, h)
        c == covariance
        \* (F P F^T)[i][i], [i][i+4], [i+4][i+4]
        pp(i) == c.pp[i] + 2 * c.pv[i] + c.vv[i]
        pv(i) == c.pv[i] + c.vv[i]
    IN  [mean |-> <<mean[1] + mean[5], mean[2] + mean[6], mean[3] + mean[7],
                    mean[4] + mean[8], mean[5], mean[6], mean[7], mean[8]>>,
         covariance |->
            [pp |-> <<pp(1) + qp, pp(2) + qp, pp(3) + VarAspectInit, pp(4) + qp>>,
             pv |-> <<pv(1), pv(2), pv(3), pv(4)>>,
             vv |-> <<c.vv[1] + qv, c.vv[2] + qv, c.vv[3] + VarAspectVel, c.vv[4] + qv>>]]

project(mean, covariance) ==
    LET h == mean[4]
        r == VarOf(1, InvStdWeightPosition, h)
    IN  [mean |-> <<mean[1], mean[2], mean[3], mean[4]>>,
         covariance |-> <<covariance.pp[1] + r, covariance.pp[2] + r,
                          covariance.pp[3] + VarAspectProj, covariance.pp[4] + r>>]

\* mean + K (z - H mean), P - K S K^T with K = P H^T S^-1.  S is diagonal, and
\* positive for a mean of positive height, so invert_4x4 succeeds.
KF_update(mean, covariance, measurement) ==
    LET proj == project(mean, covariance)
        s == proj.covariance
        c == covariance
        innovation(i) == measurement[i] - proj.mean[i]
        \* (K innovation)[i] and [i+4]
        dp(i) == RDiv(c.pp[i] * innovation(i), s[i])
        dv(i) == RDiv(c.pv[i] * innovation(i), s[i])
        \* (K S K^T)[i][i], [i][i+4], [i+4][i+4]
        kpp(i) == RDiv(c.pp[i] * c.pp[i], s[i])
        kpv(i) == RDiv(c.pp[i] * c.pv[i], s[i])
        kvv(i) == RDiv(c.pv[i] * c.pv[i], s[i])
    IN  [mean |-> <<mean[1] + dp(1), mean[2] + dp(2), mean[3] + dp(3), mean[4] + dp(4),
                    mean[5] + dv(1), mean[6] + dv(2), mean[7] + dv(3), mean[8] + dv(4)>>,
         covariance |->
            [pp |-> <<c.pp[1] - kpp(1), c.pp[2] - kpp(2), c.pp[3] - kpp(3), c.pp[4] - kpp(4)>>,
             pv |-> <<c.pv[1] - kpv(1), c.pv[2] - kpv(2), c.pv[3] - kpv(3), c.pv[4] - kpv(4)>>,
             vv |-> <<c.vv[1] - kvv(1), c.vv[2] - kvv(2), c.vv[3] - kvv(3), c.vv[4] - kvv(4)>>]]

(***************************************************************************)
(* strack.rs                                                               *)
(***************************************************************************)
\* Option<T>: <<>> is None, <<v>> is Some(v)
None == <<>>
Some(v) == <<v>>

\* fetch_add(1) + 1 on TRACK_ID_COUNTER: the new counter value is the id
\* next_track_id returning the value the counter held before the addition
next_track_id_before(counter) == counter


next_track_id(counter) == counter + 1

STrack_new(tlwh, score) ==
    [mean |-> None, covariance |-> None, tlwh |-> tlwh, score |-> score,
     track_id |-> 0, state |-> "New", is_activated |-> FALSE,
     frame_id |-> 0, start_frame |-> 0, tracklet_len |-> 0]

STrack_tlwh(t) ==
    IF t.mean # None
    THEN from_xyah(t.mean[1][1], t.mean[1][2], t.mean[1][3], t.mean[1][4])
    ELSE t.tlwh

rect(t) == STrack_tlwh(t)

end_frame(t) == t.frame_id

\* activate confirming the track in every frame
activate_confirmed(t, frame_id, counter) ==
    LET kf == initiate(to_xyah(t.tlwh))
    IN  [t EXCEPT !.track_id = next_track_id(counter),
                  !.mean = Some(kf.mean),
                  !.covariance = Some(kf.covariance),
                  !.tracklet_len = 0,
                  !.state = "Tracked",
                  !.is_activated = TRUE,
                  !.frame_id = frame_id,
                  !.start_frame = frame_id]

\* activate confirming the track that takes the first id
activate_first_id(t, frame_id, counter) ==
    LET kf == initiate(to_xyah(t.tlwh))
    IN  [t EXCEPT !.track_id = next_track_id(counter),
                  !.mean = Some(kf.mean),
                  !.covariance = Some(kf.covariance),
                  !.tracklet_len = 0,
                  !.state = "Tracked",
                  !.is_activated = IF next_track_id(counter) = 1 THEN TRUE ELSE @,
                  !.frame_id = frame_id,
                  !.start_frame = frame_id]


\* the track after activate, which takes the id next_track_id(counter)
activate(t, frame_id, counter) ==
    LET kf == initiate(to_xyah(t.tlwh))
    IN  [t EXCEPT !.track_id = next_track_id(counter),
                  !.mean = Some(kf.mean),
                  !.covariance = Some(kf.covariance),
                  !.tracklet_len = 0,
                  !.state = "Tracked",
                  !.is_activated = IF frame_id = 1 THEN TRUE ELSE @,
                  !.frame_id = frame_id,
                  !.start_frame = frame_id]

\* re_activate starting the track anew in its frame
re_activate_restarts(t, new_track, frame_id, new_id, counter) ==
    LET has == t.mean # None /\ t.covariance # None
        kf == KF_update(t.mean[1], t.covariance[1], to_xyah(new_track.tlwh))
    IN  [t EXCEPT !.mean = IF has THEN Some(kf.mean) ELSE @,
                  !.covariance = IF has THEN Some(kf.covariance) ELSE @,
                  !.tracklet_len = 0,
                  !.state = "Tracked",
                  !.is_activated = TRUE,
                  !.frame_id = frame_id,
                  !.start_frame = frame_id,
                  !.score = new_track.score,
                  !.track_id = IF new_id THEN next_track_id(counter) ELSE @]


\* re_activate keeping the count of updates
re_activate_keeps_len(t, new_track, frame_id, new_id, counter) ==
    LET has == t.mean # None /\ t.covariance # None
        kf == KF_update(t.mean[1], t.covariance[1], to_xyah(new_track.tlwh))
    IN  [t EXCEPT !.mean = IF has THEN Some(kf.mean) ELSE @,
                  !.covariance = IF has THEN Some(kf.covariance) ELSE @,
                  !.state = "Tracked",
                  !.is_activated = TRUE,
                  !.frame_id = frame_id,
                  !.score = new_track.score,
                  !.track_id = IF new_id THEN next_track_id(counter) ELSE @]


\* the track after re_activate; with new_id it takes the id next_track_id(counter)
re_activate(t, new_track, frame_id, new_id, counter) ==
    LET has == t.mean # None /\ t.covariance # None
        kf == KF_update(t.mean[1], t.covariance[1], to_xyah(new_track.tlwh))
    IN  [t EXCEPT !.mean = IF has THEN Some(kf.mean) ELSE @,
                  !.covariance = IF has THEN Some(kf.covariance) ELSE @,
                  !.tracklet_len = 0,
                  !.state = "Tracked",
                  !.is_activated = TRUE,
                  !.frame_id = frame_id,
                  !.score = new_track.score,
                  !.track_id = IF new_id THEN next_track_id(counter) ELSE @]

\* update leaving the frame of the track as it was
STrack_update_stale(t, new_track, frame_id) ==
    LET has == t.mean # None /\ t.covariance # None
        kf == KF_update(t.mean[1], t.covariance[1], to_xyah(new_track.tlwh))
    IN  [t EXCEPT !.tracklet_len = @ + 1,
                  !.mean = IF has THEN Some(kf.mean) ELSE @,
                  !.covariance = IF has THEN Some(kf.covariance) ELSE @,
                  !.state = "Tracked",
                  !.is_activated = TRUE,
                  !.score = new_track.score]


STrack_update(t, new_track, frame_id) ==
    LET has == t.mean # None /\ t.covariance # None
        kf == KF_update(t.mean[1], t.covariance[1], to_xyah(new_track.tlwh))
    IN  [t EXCEPT !.frame_id = frame_id,
                  !.tracklet_len = @ + 1,
                  !.mean = IF has THEN Some(kf.mean) ELSE @,
                  !.covariance = IF has THEN Some(kf.covariance) ELSE @,
                  !.state = "Tracked",
                  !.is_activated = TRUE,
                  !.score = new_track.score]

\* predict keeping the height velocity in every state
predict_keeps_vh(t) ==
    IF t.mean # None /\ t.covariance # None
    THEN LET kf == KF_predict(t.mean[1], t.covariance[1])
         IN  [t EXCEPT !.mean = Some(kf.mean), !.covariance = Some(kf.covariance)]
    ELSE t


predict(t) ==
    IF t.mean # None /\ t.covariance # None
    THEN LET mean_to_predict ==
                 IF t.state # "Tracked" THEN [t.mean[1] EXCEPT ![8] = 0] ELSE t.mean[1]
             kf == KF_predict(mean_to_predict, t.covariance[1])
         IN  [t EXCEPT !.mean = Some(kf.mean), !.covariance = Some(kf.covariance)]
    ELSE t

\* mark_lost leaving the state as it is
mark_lost_skipped(t) == t

mark_lost(t) == [t EXCEPT !.state = "Lost"]

mark_removed(t) == [t EXCEPT !.state = "Removed"]

multi_predict(stracks) == [i \in 1..Len(stracks) |-> predict(stracks[i])]

(***************************************************************************)
(* matching.rs                                                             *)
(***************************************************************************)
Detection_new(x1, y1, x2, y2, score) ==
    [score |-> score, bbox |-> from_tlbr(x1, y1, x2, y2)]

Detection_from_rect(bbox, score) == [score |-> score, bbox |-> bbox]

iou_distance(track_boxes, det_boxes) ==
    [rows |-> Len(track_boxes), cols |-> Len(det_boxes),
     at |-> [p \in (1..Len(track_boxes)) \X (1..Len(det_boxes)) |->
                IOUSC - iou(track_boxes[p[1]], det_boxes[p[2]])]]

fuse_score(cost_matrix, detections) ==
    [cost_matrix EXCEPT !.at =
        [p \in DOMAIN cost_matrix.at |->
            LET iou_sim == IOUSC - cost_matrix.at[p]
                fused_sim == RDiv(iou_sim * detections[p[2]].score, 100)
            IN  IOUSC - fused_sim]]

\* the indices 1..n in ascending order
Indices(n) == [i \in 1..n |-> i]

RECURSIVE SumOver(_, _)
SumOver(f, S) ==
    IF S = {} THEN 0
    ELSE LET x == CHOOSE y \in S : TRUE IN f[x] + SumOver(f, S \ {x})

\* the padded matrix filled without the last column of the cost matrix
PaddedCost_short(cost_matrix, size, row_to_col) ==
    LET inside == {i \in 1..size : i <= cost_matrix.rows /\ row_to_col[i] < cost_matrix.cols}
    IN  [pads |-> size - Cardinality(inside),
         real |-> SumOver([i \in inside |-> cost_matrix.at[<<i, row_to_col[i]>>]], inside)]


\* The total cost of the assignment row_to_col on the matrix padded to
\* size x size with the sentinel 1e6: the number of sentinel cells it uses and
\* the sum of its cells inside the original matrix.
PaddedCost(cost_matrix, size, row_to_col) ==
    LET inside == {i \in 1..size : i <= cost_matrix.rows /\ row_to_col[i] <= cost_matrix.cols}
    IN  [pads |-> size - Cardinality(inside),
         real |-> SumOver([i \in inside |-> cost_matrix.at[<<i, row_to_col[i]>>]], inside)]

\* pads * 1e6 + real compared: a sum of real costs is below one sentinel
CostLeq(a, b) == a.pads < b.pads \/ (a.pads = b.pads /\ a.real <= b.real)

\* lapjv::lapjv on the padded matrix: a row-to-column permutation of least total
\* cost; which one, among several of the same cost, is the solver's choice.
lapjv(cost_matrix, size) ==
    LET all == Permutations(1..size)
        total == [r \in all |-> PaddedCost(cost_matrix, size, r)]
        best == CHOOSE r \in all : \A q \in all : CostLeq(total[r], total[q])
    IN  {r \in all : CostLeq(total[r], total[best])}

\* the result built without the threshold test
AssignmentOf_unchecked(cost_matrix, thresh, row_to_col) ==
    LET num_rows == cost_matrix.rows
        num_cols == cost_matrix.cols
        accepted(i) == row_to_col[i] <= num_cols
        rows == Indices(num_rows)
        matched_rows == SelectSeq(rows, LAMBDA i : accepted(i))
        mask(j) == \A k \in 1..Len(matched_rows) : row_to_col[matched_rows[k]] # j
    IN  [matches |-> [k \in 1..Len(matched_rows) |->
                        <<matched_rows[k], row_to_col[matched_rows[k]]>>],
         unmatched_tracks |-> SelectSeq(rows, LAMBDA i : ~accepted(i)),
         unmatched_detections |-> SelectSeq(Indices(num_cols), LAMBDA j : mask(j))]

\* the result built with the rows that fall on padding skipped
AssignmentOf_skips_padding(cost_matrix, thresh, row_to_col) ==
    LET num_rows == cost_matrix.rows
        num_cols == cost_matrix.cols
        accepted(i) == /\ row_to_col[i] <= num_cols
                       /\ cost_matrix.at[<<i, row_to_col[i]>>] <= thresh
        rows == Indices(num_rows)
        matched_rows == SelectSeq(rows, LAMBDA i : accepted(i))
        mask(j) == \A k \in 1..Len(matched_rows) : row_to_col[matched_rows[k]] # j
    IN  [matches |-> [k \in 1..Len(matched_rows) |->
                        <<matched_rows[k], row_to_col[matched_rows[k]]>>],
         unmatched_tracks |-> SelectSeq(rows, LAMBDA i : ~accepted(i)
                                                          /\ row_to_col[i] <= num_cols),
         unmatched_detections |-> SelectSeq(Indices(num_cols), LAMBDA j : mask(j))]


\* the AssignmentResult built from the solver's row_to_col
AssignmentOf(cost_matrix, thresh, row_to_col) ==
    LET num_rows == cost_matrix.rows
        num_cols == cost_matrix.cols
        accepted(i) == /\ row_to_col[i] <= num_cols
                       /\ cost_matrix.at[<<i, row_to_col[i]>>] <= thresh
        rows == Indices(num_rows)
        matched_rows == SelectSeq(rows, LAMBDA i : accepted(i))
        mask(j) == \A k \in 1..Len(matched_rows) : row_to_col[matched_rows[k]] # j
    IN  [matches |-> [k \in 1..Len(matched_rows) |->
                        <<matched_rows[k], row_to_col[matched_rows[k]]>>],
         unmatched_tracks |-> SelectSeq(rows, LAMBDA i : ~accepted(i)),
         unmatched_detections |-> SelectSeq(Indices(num_cols), LAMBDA j : mask(j))]

\* the results linear_assignment can return, one for each choice of the solver
linear_assignment(cost_matrix, thresh) ==
    LET num_rows == cost_matrix.rows
        num_cols == cost_matrix.cols
        size == Max(num_rows, num_cols)
    IN  IF num_rows = 0
        THEN {[matches |-> <<>>, unmatched_tracks |-> <<>>,
               unmatched_detections |-> Indices(num_cols)]}
        ELSE IF num_cols = 0
        THEN {[matches |-> <<>>, unmatched_tracks |-> Indices(num_rows),
               unmatched_detections |-> <<>>]}
        ELSE {AssignmentOf(cost_matrix, thresh, r) : r \in lapjv(cost_matrix, size)}

(***************************************************************************)
(* byte_tracker.rs: the set operations                                     *)
(***************************************************************************)
Ids(stracks) == {stracks[i].track_id : i \in 1..Len(stracks)}

joint_stracks(tlista, tlistb) ==
    LET fresh(i) == /\ tlistb[i].track_id \notin Ids(tlista)
                    /\ \A k \in 1..(i - 1) : tlistb[k].track_id # tlistb[i].track_id
        kept == SelectSeq(Indices(Len(tlistb)), LAMBDA i : fresh(i))
    IN  tlista \o [k \in 1..Len(kept) |-> tlistb[kept[k]]]

\* sub_stracks removing nothing
sub_stracks_none(tlista, tlistb) == tlista

sub_stracks(tlista, tlistb) ==
    SelectSeq(tlista, LAMBDA t : t.track_id \notin Ids(tlistb))

DupIouThresh == 850

\* duplicate removal with the tie going against the lost entry
remove_duplicate_stracks_tie_lost(stracksa, stracksb) ==
    IF Len(stracksa) = 0 \/ Len(stracksb) = 0
    THEN [a |-> stracksa, b |-> stracksb]
    ELSE
    LET ious == iou_batch([i \in 1..Len(stracksa) |-> rect(stracksa[i])],
                          [j \in 1..Len(stracksb) |-> rect(stracksb[j])])
        time_a(i) == stracksa[i].frame_id - stracksa[i].start_frame
        time_b(j) == stracksb[j].frame_id - stracksb[j].start_frame
        dupa(i) == \E j \in 1..Len(stracksb) :
                      ious.at[<<i, j>>] > DupIouThresh /\ ~(time_a(i) >= time_b(j))
        dupb(j) == \E i \in 1..Len(stracksa) :
                      ious.at[<<i, j>>] > DupIouThresh /\ time_a(i) >= time_b(j)
        keepa == SelectSeq(Indices(Len(stracksa)), LAMBDA i : ~dupa(i))
        keepb == SelectSeq(Indices(Len(stracksb)), LAMBDA j : ~dupb(j))
    IN  [a |-> [k \in 1..Len(keepa) |-> stracksa[keepa[k]]],
         b |-> [k \in 1..Len(keepb) |-> stracksb[keepb[k]]]]


remove_duplicate_stracks(stracksa, stracksb) ==
    IF Len(stracksa) = 0 \/ Len(stracksb) = 0
    THEN [a |-> stracksa, b |-> stracksb]
    ELSE
    LET ious == iou_batch([i \in 1..Len(stracksa) |-> rect(stracksa[i])],
                          [j \in 1..Len(stracksb) |-> rect(stracksb[j])])
        time_a(i) == stracksa[i].frame_id - stracksa[i].start_frame
        time_b(j) == stracksb[j].frame_id - stracksb[j].start_frame
        dupa(i) == \E j \in 1..Len(stracksb) :
                      ious.at[<<i, j>>] > DupIouThresh /\ ~(time_a(i) > time_b(j))
        dupb(j) == \E i \in 1..Len(stracksa) :
                      ious.at[<<i, j>>] > DupIouThresh /\ time_a(i) > time_b(j)
        keepa == SelectSeq(Indices(Len(stracksa)), LAMBDA i : ~dupa(i))
        keepb == SelectSeq(Indices(Len(stracksb)), LAMBDA j : ~dupb(j))
    IN  [a |-> [k \in 1..Len(keepa) |-> stracksa[keepa[k]]],
         b |-> [k \in 1..Len(keepb) |-> stracksb[keepb[k]]]]

(***************************************************************************)
(* byte_tracker.rs: TrackerConfig and BYTETracker::new                     *)
(***************************************************************************)
\* (frame_rate / 30.0 * track_buffer as f32) as u32
\* the cast to u32 saturates: a negative product gives 0
MaxTimeLost(config) == Max(0, (config.frame_rate * config.track_buffer) \div 30)

BYTETracker_new(config) ==
    [frame_id |-> 0, config |-> config,
     tracked_stracks |-> <<>>, lost_stracks |-> <<>>, removed_stracks |-> <<>>,
     max_time_lost |-> MaxTimeLost(config)]

(***************************************************************************)
(* byte_tracker.rs: BYTETracker::update, stage by stage.  self is the      *)
(* tracker record; frame is self.frame_id after the increment.             *)
(***************************************************************************)
LowScoreFloor == 10
SecondThresh == 500
UnconfirmedThresh == 700
NewTrackMargin == 10

\* percent to cost units
CostThresh(percent) == percent * (IOUSC \div 100)

Rects(stracks) == [i \in 1..Len(stracks) |-> rect(stracks[i])]
Wrappers(stracks) ==
    [i \in 1..Len(stracks) |-> Detection_from_rect(rect(stracks[i]), stracks[i].score)]

\* Step 1: split detections
HighDetections(self, detections) ==
    LET remain == SelectSeq(detections, LAMBDA d : d.score >= self.config.track_thresh)
    IN  [i \in 1..Len(remain) |-> STrack_new(remain[i].bbox, remain[i].score)]

\* the split with the floor included in the low band
LowDetections_at_floor(self, detections) ==
    LET low == SelectSeq(detections,
                   LAMBDA d : ~(d.score >= self.config.track_thresh) /\ d.score >= LowScoreFloor)
    IN  [i \in 1..Len(low) |-> STrack_new(low[i].bbox, low[i].score)]


LowDetections(self, detections) ==
    LET low == SelectSeq(detections,
                   LAMBDA d : ~(d.score >= self.config.track_thresh) /\ d.score > LowScoreFloor)
    IN  [i \in 1..Len(low) |-> STrack_new(low[i].bbox, low[i].score)]

\* the partition of self.tracked_stracks
Unconfirmed(self) == SelectSeq(self.tracked_stracks, LAMBDA t : ~t.is_activated)
Confirmed(self) == SelectSeq(self.tracked_stracks, LAMBDA t : t.is_activated)

\* the pool, predicted
StrackPool(self) == multi_predict(joint_stracks(Confirmed(self), self.lost_stracks))

\* Step 2: the cost matrix of the first association
FirstDists(pool, dets) ==
    fuse_score(iou_distance(Rects(pool), Rects(dets)), Wrappers(dets))

\* the loop re-activating with new_id = true
MatchedTrack_new_id(track, det, frame) ==
    IF track.state = "Tracked"
    THEN STrack_update(track, det, frame)
    ELSE re_activate(track, det, frame, TRUE, track.track_id)

\* the loop over matches of the first and the second association: each matched
\* track, updated or re-activated
MatchedTrack(track, det, frame) ==
    IF track.state = "Tracked"
    THEN STrack_update(track, det, frame)
    ELSE re_activate(track, det, frame, FALSE, 0)

ProcessMatches(matches, tracks, dets, frame) ==
    LET hit(k) == tracks[matches[k][1]]
        out == [k \in 1..Len(matches) |-> MatchedTrack(hit(k), dets[matches[k][2]], frame)]
        upd == SelectSeq(Indices(Len(matches)), LAMBDA k : hit(k).state = "Tracked")
        ref == SelectSeq(Indices(Len(matches)), LAMBDA k : hit(k).state # "Tracked")
    IN  [activated |-> [k \in 1..Len(upd) |-> out[upd[k]]],
         refind |-> [k \in 1..Len(ref) |-> out[ref[k]]]]

\* the second association over all the tracks the first left, the Lost included
RTracked_all(pool, unmatched_tracks) ==
    [k \in 1..Len(unmatched_tracks) |-> pool[unmatched_tracks[k]]]


\* Step 3: the tracks of the second association
RTracked(pool, unmatched_tracks) ==
    LET idx == SelectSeq(unmatched_tracks, LAMBDA i : pool[i].state = "Tracked")
    IN  [k \in 1..Len(idx) |-> pool[idx[k]]]

\* the second association on fused costs
SecondDists_fused(r_tracked, dets_second) ==
    fuse_score(iou_distance(Rects(r_tracked), Rects(dets_second)), Wrappers(dets_second))

SecondDists(r_tracked, dets_second) ==
    iou_distance(Rects(r_tracked), Rects(dets_second))

\* the unmatched tracks of the second association, marked lost
FreshLost(r_tracked, unmatched_tracks_second) ==
    LET idx == SelectSeq(unmatched_tracks_second, LAMBDA i : r_tracked[i].state # "Lost")
    IN  [k \in 1..Len(idx) |-> mark_lost(r_tracked[idx[k]])]

\* the unconfirmed association over every high-score detection
DetectionsRem_all(dets, unmatched_detections) == dets

\* the unconfirmed association
DetectionsRem(dets, unmatched_detections) ==
    [k \in 1..Len(unmatched_detections) |-> dets[unmatched_detections[k]]]

UnconfirmedDists(unconfirmed, detections_rem) ==
    fuse_score(iou_distance(Rects(unconfirmed), Rects(detections_rem)),
               Wrappers(detections_rem))

ConfirmedNow(unconfirmed, detections_rem, matches, frame) ==
    [k \in 1..Len(matches) |->
        STrack_update(unconfirmed[matches[k][1]], detections_rem[matches[k][2]], frame)]

\* the unmatched unconfirmed tracks, not marked
DroppedUnconfirmed_unmarked(unconfirmed, unmatched_unconfirmed) ==
    [k \in 1..Len(unmatched_unconfirmed) |-> unconfirmed[unmatched_unconfirmed[k]]]

DroppedUnconfirmed(unconfirmed, unmatched_unconfirmed) ==
    [k \in 1..Len(unmatched_unconfirmed) |->
        mark_removed(unconfirmed[unmatched_unconfirmed[k]])]

\* init new stracks without the score bar
NewStracks_any(self, detections_rem, unmatched_new, frame, counter) ==
    [k \in 1..Len(unmatched_new) |->
        activate(detections_rem[unmatched_new[k]], frame, counter + k - 1)]

\* Step 4: init new stracks; the k-th track created takes the k-th id drawn
NewStracks(self, detections_rem, unmatched_new, frame, counter) ==
    LET idx == SelectSeq(unmatched_new,
                   LAMBDA i : ~(detections_rem[i].score
                                  < self.config.track_thresh + NewTrackMargin))
    IN  [k \in 1..Len(idx) |-> activate(detections_rem[idx[k]], frame, counter + k - 1)]

\* the sweep expiring no track
Overdue_never(self, track, frame) == FALSE


\* the sweep one frame late
Overdue_late(self, track, frame) == frame - end_frame(track) > self.max_time_lost + 1

\* Step 5: the sweep of self.lost_stracks
Overdue(self, track, frame) == frame - end_frame(track) > self.max_time_lost

ExpiredLost(self, frame) ==
    LET gone == SelectSeq(self.lost_stracks, LAMBDA t : Overdue(self, t, frame))
    IN  [k \in 1..Len(gone) |-> mark_removed(gone[k])]

\* the sweep keeping the predicted copies of the lost tracks
SurvivingLost_predicted(self, frame) ==
    multi_predict(SelectSeq(self.lost_stracks, LAMBDA t : ~Overdue(self, t, frame)))


SurvivingLost(self, frame) ==
    SelectSeq(self.lost_stracks, LAMBDA t : ~Overdue(self, t, frame))

\* the reconciliation recording the duplicates it drops as removed
Reconcile_records(self, frame, activated_stracks, refind_stracks, lost_stracks, removed_stracks) ==
    LET tracked == SelectSeq(activated_stracks \o refind_stracks,
                             LAMBDA t : t.state = "Tracked")
        lost == sub_stracks(lost_stracks, tracked)
        dedup == remove_duplicate_stracks(tracked, lost)
        kept == dedup.a \o dedup.b
        dropped == SelectSeq(tracked \o lost,
                             LAMBDA t : \A k \in 1..Len(kept) : kept[k] # t)
    IN  [frame_id |-> frame,
         config |-> self.config,
         tracked_stracks |-> dedup.a,
         lost_stracks |-> dedup.b,
         removed_stracks |-> self.removed_stracks \o removed_stracks
                                \o [k \in 1..Len(dropped) |-> mark_removed(dropped[k])],
         max_time_lost |-> self.max_time_lost]


\* the reconciliation keeping only the tracks removed in this frame
Reconcile_forgets(self, frame, activated_stracks, refind_stracks, lost_stracks, removed_stracks) ==
    LET tracked == SelectSeq(activated_stracks \o refind_stracks,
                             LAMBDA t : t.state = "Tracked")
        lost == sub_stracks(lost_stracks, tracked)
        dedup == remove_duplicate_stracks(tracked, lost)
    IN  [frame_id |-> frame,
         config |-> self.config,
         tracked_stracks |-> dedup.a,
         lost_stracks |-> dedup.b,
         removed_stracks |-> removed_stracks,
         max_time_lost |-> self.max_time_lost]


\* the reconciliation in a tracker whose frame counter is not incremented
Reconcile_same_frame(self, frame, activated_stracks, refind_stracks, lost_stracks, removed_stracks) ==
    LET tracked == SelectSeq(activated_stracks \o refind_stracks,
                             LAMBDA t : t.state = "Tracked")
        lost == sub_stracks(lost_stracks, tracked)
        dedup == remove_duplicate_stracks(tracked, lost)
    IN  [frame_id |-> self.frame_id,
         config |-> self.config,
         tracked_stracks |-> dedup.a,
         lost_stracks |-> dedup.b,
         removed_stracks |-> self.removed_stracks \o removed_stracks,
         max_time_lost |-> self.max_time_lost]


\* the reconciliation of the sets and the value returned
Reconcile(self, frame, activated_stracks, refind_stracks, lost_stracks, removed_stracks) ==
    LET tracked == SelectSeq(activated_stracks \o refind_stracks,
                             LAMBDA t : t.state = "Tracked")
        lost == sub_stracks(lost_stracks, tracked)
        dedup == remove_duplicate_stracks(tracked, lost)
    IN  [frame_id |-> frame,
         config |-> self.config,
         tracked_stracks |-> dedup.a,
         lost_stracks |-> dedup.b,
         removed_stracks |-> self.removed_stracks \o removed_stracks,
         max_time_lost |-> self.max_time_lost]

\* the value returned without the is_activated filter
Returned_unfiltered(self) == self.tracked_stracks

Returned(self) == SelectSeq(self.tracked_stracks, LAMBDA t : t.is_activated)

(***************************************************************************)
(* The state: one tracker, the process-wide id counter, the value the last *)
(* update returned, and a record of what the last update call did; the     *)
(* threads of the process that run trackers of their own (none, but in the *)
(* specifications of the process further down), and the ids next_track_id  *)
(* handed out to them, in the order of the process; the call of a function *)
(* of the crate on its own, with its arguments and its result (none, but   *)
(* in the specifications of such a function).                              *)
(***************************************************************************)
VARIABLES tracker, TRACK_ID_COUNTER, returned, last, threads, handed, applied

vars == <<tracker, TRACK_ID_COUNTER, returned, last, threads, handed, applied>>

\* before any call
NoCall ==
    [detections |-> <<>>, lost_stracks |-> <<>>, removed_stracks |-> <<>>,
     unmatched_new |-> <<>>, activated_stracks |-> <<>>, refind_stracks |-> <<>>,
     first |-> <<>>, second |-> <<>>, third |-> <<>>, created |-> <<>>]

\* the matches of one association: for each, the track (as it is in the pool
\* or in unconfirmed), the detection and the track after the match
MatchLog(matches, tracks, dets, yielded) ==
    [k \in 1..Len(matches) |->
        [track |-> tracks[matches[k][1]], det |-> dets[matches[k][2]],
         after |-> yielded[k]]]

(***************************************************************************)
(* BYTETracker::update(detections).  strack_pool is StrackPool(tracker):   *)
(* the predicted pool depends on the tracker alone and is computed once    *)
(* for all the detection lists of a step.  The locals of update are bound  *)
(* by \E over a one-element set, so that each is computed once; the three  *)
(* choices a1, a2, a3 are those of the assignment solver.                  *)
(***************************************************************************)
Update(detections, strack_pool) ==
    \E self \in {tracker} :
    \E frame \in {tracker.frame_id + 1} :
    \E dets \in {HighDetections(self, detections)} :
    \E dets_second \in {LowDetections(self, detections)} :
    \E unconfirmed \in {Unconfirmed(self)} :
    \E a1 \in linear_assignment(FirstDists(strack_pool, dets),
                                CostThresh(self.config.match_thresh)) :
    \E m1 \in {ProcessMatches(a1.matches, strack_pool, dets, frame)} :
    \E r_tracked \in {RTracked(strack_pool, a1.unmatched_tracks)} :
    \E detections_rem \in {DetectionsRem(dets, a1.unmatched_detections)} :
    \E a2 \in linear_assignment(SecondDists(r_tracked, dets_second), SecondThresh) :
    \E m2 \in {ProcessMatches(a2.matches, r_tracked, dets_second, frame)} :
    \E fresh_lost \in {FreshLost(r_tracked, a2.unmatched_tracks)} :
    \E a3 \in linear_assignment(UnconfirmedDists(unconfirmed, detections_rem),
                                UnconfirmedThresh) :
    \E confirmed_now \in {ConfirmedNow(unconfirmed, detections_rem, a3.matches, frame)} :
    \E dropped \in {DroppedUnconfirmed(unconfirmed, a3.unmatched_tracks)} :
    \E created \in {NewStracks(self, detections_rem, a3.unmatched_detections,
                               frame, TRACK_ID_COUNTER)} :
    \E activated_stracks \in {m1.activated \o m2.activated \o confirmed_now \o created} :
    \E refind_stracks \in {m1.refind \o m2.refind} :
    \E lost_stracks \in {fresh_lost \o SurvivingLost(self, frame)} :
    \E removed_stracks \in {dropped \o ExpiredLost(self, frame)} :
    \E after \in {Reconcile(self, frame, activated_stracks, refind_stracks,
                            lost_stracks, removed_stracks)} :
        /\ tracker' = after
        /\ TRACK_ID_COUNTER' = IF Len(created) = 0 THEN TRACK_ID_COUNTER
                               ELSE created[Len(created)].track_id
        /\ returned' = Returned(after)
        /\ last' = [detections |-> detections,
                    lost_stracks |-> lost_stracks,
                    removed_stracks |-> removed_stracks,
                    unmatched_new |-> DetectionsRem(detections_rem, a3.unmatched_detections),
                    activated_stracks |-> activated_stracks,
                    refind_stracks |-> refind_stracks,
                    first |-> MatchLog(a1.matches, strack_pool, dets,
                                       m1.activated \o m1.refind),
                    second |-> MatchLog(a2.matches, r_tracked, dets_second,
                                        m2.activated \o m2.refind),
                    third |-> MatchLog(a3.matches, unconfirmed, detections_rem,
                                       confirmed_now),
                    created |-> created]

(***************************************************************************)
(* Bounds of the model and the inputs drawn.                               *)
(***************************************************************************)
MaxFrame == 3
MaxDets == 2
MaxTrackBuffer == 2

\* the boxes of the detections: squares of BoxSide on one row, at the given
\* offsets of their left edge (in 1/FP pixels)
BoxSide == 10 * FP

DetectionsOf(offsets, scores) ==
    {Detection_new(x, 0, x + BoxSide, BoxSide, sc) : x \in offsets, sc \in scores}

\* the detection lists of one frame: up to n distinct detections, listed from left
\* to right and, at one offset, by ascending score
DetKey(d) == d.bbox.x * 100 + d.score
ListsOver(D, n) ==
    {l \in UNION {[1..k -> D] : k \in 0..n} :
        \A i \in 1..(Len(l) - 1) : DetKey(l[i]) < DetKey(l[i + 1])}

\* one frame: update is called with one of the lists, up to the frame bound
Frame(lists, frames) ==
    /\ tracker.frame_id < frames
    /\ \E strack_pool \in {StrackPool(tracker)} :
          \E detections \in lists : Update(detections, strack_pool)
    /\ UNCHANGED <<threads, handed, applied>>

Start(configs) ==
    /\ tracker \in {BYTETracker_new(c) : c \in configs}
    /\ TRACK_ID_COUNTER = 0
    /\ returned = <<>>
    /\ last = NoCall
    /\ threads = <<>>
    /\ handed = <<>>
    /\ applied = <<>>

(***************************************************************************)
(* Spec: TrackerConfig::default() with every track_buffer up to            *)
(* MaxTrackBuffer; boxes that coincide, overlap (IoU 0.82) or are          *)
(* disjoint; a low score, a high score below the new-track bar and a high  *)
(* score above it.                                                         *)
(***************************************************************************)
Configs ==
    {[frame_rate |-> 30, track_buffer |-> tb, track_thresh |-> 50,
      match_thresh |-> 80] :
        tb \in 0..MaxTrackBuffer}

DetectionLists == ListsOver(DetectionsOf({0, 1 * FP, 30 * FP}, {20, 55, 90}), MaxDets)

Init == Start(Configs)

Next == Frame(DetectionLists, MaxFrame)

Spec == Init /\ [][Next]_vars

(***************************************************************************)
(* SpecNear: the default thresholds with track_buffer MaxTrackBuffer, high *)
(* scores only, and boxes 0, 0.6 and 1 px along the row (IoU 0.887 and     *)
(* 0.923, above the 0.85 of remove_duplicate_stracks, and 0.818, below     *)
(* it); two frames more, for a track to be created, confirmed, lost and    *)
(* found again.                                                            *)
(***************************************************************************)
NearConfigs ==
    {[frame_rate |-> 30, track_buffer |-> MaxTrackBuffer, track_thresh |-> 50,
      match_thresh |-> 80]}

NearOffsets == {0, (6 * FP) \div 10, FP}

InitNear == Start(NearConfigs)

NextNear == Frame(ListsOver(DetectionsOf(NearOffsets, {90}), MaxDets), MaxFrame + 2)

SpecNear == InitNear /\ [][NextNear]_vars

(***************************************************************************)
(* SpecSecond: the same configuration and boxes, with a low score as well, *)
(* and one frame more.                                                     *)
(***************************************************************************)
NextSecond == Frame(ListsOver(DetectionsOf(NearOffsets, {20, 90}), MaxDets), MaxFrame + 1)

SpecSecond == InitNear /\ [][NextSecond]_vars

(***************************************************************************)
(* SpecStrict: a tracker configured with match_thresh 0.2, so that a       *)
(* detection 0.6 px off a track (fused cost 0.2015) is left unmatched.     *)
(***************************************************************************)
StrictOffsets == {0, (6 * FP) \div 10}

StrictConfigs ==
    {[frame_rate |-> 30, track_buffer |-> tb, track_thresh |-> 50,
      match_thresh |-> 20] :
        tb \in 1..MaxTrackBuffer}

InitStrict == Start(StrictConfigs)

NextStrict == Frame(ListsOver(DetectionsOf(StrictOffsets, {55, 90}), MaxDets), MaxFrame)

SpecStrict == InitStrict /\ [][NextStrict]_vars

(***************************************************************************)
(* The properties.  In the action properties self is the tracker before    *)
(* the update, call the record of the update, after the tracker after it,  *)
(* result the value returned.                                              *)
(***************************************************************************)
Range(s) == {s[i] : i \in 1..Len(s)}

Distinct(stracks) ==
    \A i, j \in 1..Len(stracks) : i # j => stracks[i].track_id # stracks[j].track_id

MatchedIds(log) == {log[k].track.track_id : k \in 1..Len(log)}

MatchedDets(log) == {log[k].det : k \in 1..Len(log)}

Age(t) == t.frame_id - t.start_frame

Empty(self) ==
    /\ self.tracked_stracks = <<>>
    /\ self.lost_stracks = <<>>
    /\ self.removed_stracks = <<>>

\* t, of the tracked list of the update, is dropped by remove_duplicate_stracks:
\* a track of its lost list, no younger, overlaps it by more than 0.85
DroppedAsDuplicate(t, call) ==
    \E b \in Range(call.lost_stracks) :
        /\ b.track_id \notin Ids(call.activated_stracks \o call.refind_stracks)
        /\ iou(rect(t), rect(b)) > DupIouThresh
        /\ Age(t) <= Age(b)

\* C1: every track in the vector an update returns has is_activated true and
\* state Tracked.
C1_ReturnedActivatedTracked ==
    \A t \in Range(returned) : t.is_activated /\ t.state = "Tracked"

\* an update returned a track while the tracker holds an unconfirmed one
C1_Witness ==
    /\ Len(returned) > 0
    /\ \E t \in Range(tracker.tracked_stracks) : ~t.is_activated

\* C2: the ids of the tracks in tracked_stracks and lost_stracks together are
\* pairwise distinct after every update, and so are the ids of the tracks an
\* update returns.
C2_DistinctIds ==
    /\ Distinct(tracker.tracked_stracks \o tracker.lost_stracks)
    /\ Distinct(returned)

\* a lost track was found again while another stays lost and a third is tracked
C2_Witness ==
    /\ Len(last.refind_stracks) > 0
    /\ Len(tracker.lost_stracks) > 0
    /\ Len(returned) >= 2

\* C3: after every update each element of tracked_stracks has state Tracked,
\* each element of lost_stracks state Lost, each element of removed_stracks
\* state Removed.
C3_StateAgreesWithSet ==
    /\ \A t \in Range(tracker.tracked_stracks) : t.state = "Tracked"
    /\ \A t \in Range(tracker.lost_stracks) : t.state = "Lost"
    /\ \A t \in Range(tracker.removed_stracks) : t.state = "Removed"

\* the three sets hold a track each
C3_Witness ==
    /\ Len(tracker.tracked_stracks) > 0
    /\ Len(tracker.lost_stracks) > 0
    /\ Len(tracker.removed_stracks) > 0

\* C4: after every update no track id present in removed_stracks is also
\* present in tracked_stracks or in lost_stracks.
C4_RemovedIsFinal ==
    Ids(tracker.removed_stracks)
        \cap (Ids(tracker.tracked_stracks) \cup Ids(tracker.lost_stracks)) = {}

\* C5: after every update, at frame f, no track t with f - t.frame_id >
\* max_time_lost is in lost_stracks or in the value returned.
C5_NoOverdueTrack ==
    \A t \in Range(tracker.lost_stracks) \cup Range(returned) :
        ~(tracker.frame_id - t.frame_id > tracker.max_time_lost)

\* the confirmed tracks of self that no detection is matched to in the update
LeftWithout(self, call) ==
    {t \in Range(Confirmed(self)) :
        t.track_id \notin MatchedIds(call.first) \cup MatchedIds(call.second)}

\* each of them is marked lost, put on the lost list and not returned
GoesLost(self, call, result) ==
    \A t \in LeftWithout(self, call) :
        /\ \E l \in Range(call.lost_stracks) : l.track_id = t.track_id /\ l.state = "Lost"
        /\ t.track_id \notin Ids(result)

\* each track of lost_stracks the first association matches is re-activated
\* with new_id = false: same id, Tracked, activated, out of lost_stracks; it
\* is returned, or (unless strict) dropped as a duplicate
FoundAgain(self, call, after, result, strict) ==
    \A k \in 1..Len(call.first) :
        LET m == call.first[k]
        IN  m.track.track_id \in Ids(self.lost_stracks) =>
            /\ m.det.score >= self.config.track_thresh
            /\ m.after = re_activate(m.track, m.det, after.frame_id, FALSE, 0)
            /\ m.after.track_id = m.track.track_id
            /\ m.after.state = "Tracked"
            /\ m.after.is_activated
            /\ m.after.track_id \notin Ids(after.lost_stracks)
            /\ IF strict
               THEN m.after \in Range(result)
               ELSE (m.after \in Range(result)) # DroppedAsDuplicate(m.after, call)

\* C6, as stated: a confirmed track that gets no detection becomes Lost and is
\* not returned; a track of lost_stracks the first association matches to a
\* high-score detection is re-activated with new_id = false and is returned in
\* that frame with the same id, Tracked, activated, and is not in lost_stracks.
C6_FoundAgainReturned ==
    [][GoesLost(tracker, last', returned')
         /\ FoundAgain(tracker, last', tracker', returned', TRUE)]_vars

\* C6, amended: ... is re-activated with new_id = false, keeps its id, is
\* Tracked and activated and not in lost_stracks; it is returned in that frame
\* exactly when remove_duplicate_stracks does not drop it (it is dropped when
\* its box overlaps by IoU > 0.85 a track of the lost list that is no younger).
C6_FoundAgainUnlessDuplicate ==
    [][GoesLost(tracker, last', returned')
         /\ FoundAgain(tracker, last', tracker', returned', FALSE)]_vars

\* a track of lost_stracks was matched by the first association and returned
C6_Witness ==
    \E k \in 1..Len(last.first) :
        /\ last.first[k].track.state = "Lost"
        /\ last.first[k].after \in Range(returned)
        /\ last.first[k].after.track_id \notin Ids(tracker.lost_stracks)

\* the low-score detections of a list
LowOf(self, detections) ==
    {d \in Range(detections) :
        d.score > LowScoreFloor /\ d.score < self.config.track_thresh}

PlainDistance(a, b) == iou_distance(<<a>>, <<b>>).at[<<1, 1>>]

\* each match of the second association: a confirmed Tracked track the first
\* association left, a low-score detection, plain IoU distance at most 0.5;
\* the track is updated and keeps its id; it stays in tracked_stracks and is
\* returned, or (unless strict) is dropped as a duplicate
SecondMatches(self, call, after, result, strict) ==
    \A k \in 1..Len(call.second) :
        LET m == call.second[k]
        IN  /\ m.track.track_id \in Ids(Confirmed(self))
            /\ m.track.state = "Tracked"
            /\ m.track.track_id \notin MatchedIds(call.first)
            /\ [score |-> m.det.score, bbox |-> m.det.tlwh] \in LowOf(self, call.detections)
            /\ PlainDistance(rect(m.track), rect(m.det)) <= SecondThresh
            /\ m.after = STrack_update(m.track, m.det, after.frame_id)
            /\ m.after.track_id = m.track.track_id
            /\ IF strict
               THEN m.after \in Range(after.tracked_stracks) /\ m.after \in Range(result)
               ELSE (m.after \in Range(after.tracked_stracks) /\ m.after \in Range(result))
                       # DroppedAsDuplicate(m.after, call)

\* one track left by the first association and one low-score detection are
\* matched whenever their plain IoU distance is at most 0.5, whatever the score
\* and match_thresh
SecondMatchesPlain(self, call) ==
    LET left == {t \in Range(Confirmed(self)) : t.track_id \notin MatchedIds(call.first)}
        low == LowOf(self, call.detections)
    IN  \A t \in left, d \in low :
            (left = {t} /\ low = {d})
            => (t.track_id \in MatchedIds(call.second)
                   <=> PlainDistance(rect(predict(t)), d.bbox) <= SecondThresh)

\* C7, as stated: a confirmed Tracked track left unmatched by the first
\* association and matched by the second to a low-score detection, at plain IoU
\* distance at most 0.5, is updated, keeps its id, stays in tracked_stracks and
\* is returned in that frame.
C7_SecondMatchReturned ==
    [][SecondMatches(tracker, last', tracker', returned', TRUE)
         /\ SecondMatchesPlain(tracker, last')]_vars

\* C7, amended: ... is updated and keeps its id; it stays in tracked_stracks
\* and is returned in that frame exactly when remove_duplicate_stracks does not
\* drop it (it is dropped when its box overlaps by IoU > 0.85 a track of the
\* lost list that is no younger).
C7_SecondMatchUnlessDuplicate ==
    [][SecondMatches(tracker, last', tracker', returned', FALSE)
         /\ SecondMatchesPlain(tracker, last')]_vars

\* a track was matched by the second association and returned
C7_Witness ==
    \E k \in 1..Len(last.second) :
        /\ last.second[k].det.score < tracker.config.track_thresh
        /\ last.second[k].after \in Range(returned)

\* the tracks activate creates in frame 1 are activated and returned; those it
\* creates in a later frame are not activated and not returned, and they are
\* held in tracked_stracks, or (unless strict) dropped as duplicates
CreatedTracks(call, after, result, strict) ==
    \A c \in Range(call.created) :
        /\ c.start_frame = after.frame_id
        /\ c.state = "Tracked"
        /\ IF after.frame_id = 1
           THEN c.is_activated /\ c \in Range(result)
                   /\ c \in Range(after.tracked_stracks)
           ELSE /\ ~c.is_activated
                /\ c.track_id \notin Ids(result)
                /\ IF strict
                   THEN c \in Range(after.tracked_stracks)
                   ELSE (c \in Range(after.tracked_stracks)) # DroppedAsDuplicate(c, call)

\* C8, as stated: a track created by activate in frame 1 has is_activated true
\* and is returned by that update; a track created in a frame f > 1 has
\* is_activated false, is held in tracked_stracks and is not returned by the
\* update of frame f.
C8_CreatedHeld == CreatedTracks(last, tracker, returned, TRUE)

\* C8, amended: ... a track created in a frame f > 1 has is_activated false and
\* is not returned by the update of frame f; it is held in tracked_stracks
\* exactly when remove_duplicate_stracks does not drop it (it is dropped when
\* its box overlaps by IoU > 0.85 a track of the lost list).
C8_CreatedHeldUnlessDuplicate == CreatedTracks(last, tracker, returned, FALSE)

\* a track was created after frame 1 and is held, unconfirmed, and not returned
C8_Witness ==
    /\ tracker.frame_id > 1
    /\ \E c \in Range(last.created) :
          c \in Range(tracker.tracked_stracks) /\ c \notin Range(returned)

FusedDistance(a, b, score) ==
    fuse_score(iou_distance(<<a>>, <<b>>), <<Detection_from_rect(b, score)>>).at[<<1, 1>>]

\* each unconfirmed track of self is either matched by the unconfirmed
\* association, at fused cost at most 0.7, to a high-score detection the first
\* association left, and then updated and activated, or marked Removed and put
\* in removed_stracks; and every unconfirmed track held after the update was
\* created by it
UnconfirmedResolved(self, call, after) ==
    /\ \A u \in Range(Unconfirmed(self)) :
          LET hits == {k \in 1..Len(call.third) : call.third[k].track = u}
          IN  IF hits # {}
              THEN /\ \A k \in hits :
                        LET m == call.third[k]
                        IN  /\ m.det.score >= self.config.track_thresh
                            /\ m.det \notin MatchedDets(call.first)
                            /\ FusedDistance(rect(u), rect(m.det), m.det.score)
                                  <= UnconfirmedThresh
                            /\ m.after = STrack_update(u, m.det, after.frame_id)
                            /\ m.after.is_activated
                            /\ m.after.track_id = u.track_id
                            /\ m.after \in Range(call.activated_stracks)
                   /\ u.track_id \notin Ids(after.removed_stracks)
              ELSE /\ mark_removed(u) \in Range(after.removed_stracks)
                   /\ u.track_id \notin Ids(after.tracked_stracks)
                   /\ u.track_id \notin Ids(after.lost_stracks)
    /\ \A t \in Range(after.tracked_stracks) :
          ~t.is_activated => /\ t.track_id \notin Ids(self.tracked_stracks)
                             /\ t \in Range(call.created)

\* C9: an unconfirmed track is resolved in the very next update: matched by
\* the unconfirmed association (fused cost at most 0.7, against the high-score
\* detections the first association left) it is updated and activated,
\* otherwise it is marked Removed and moved to removed_stracks; no track stays
\* unconfirmed in tracked_stracks across two updates.
C9_UnconfirmedResolved == [][UnconfirmedResolved(tracker, last', tracker')]_vars

\* an update confirmed one unconfirmed track and removed another
C9_Witness ==
    /\ Len(last.third) > 0
    /\ \E t \in Range(last.removed_stracks) : ~t.is_activated /\ t.state = "Removed"

\* the detections left by the first and the unconfirmed association are the
\* high-score detections neither matched; each creates a track exactly when its
\* score is at least track_thresh + 0.1, each track created draws one id, and
\* an update of an empty tracker with detections all below that bar returns
\* nothing, holds nothing and draws no id
NewTrackRule(self, counter, call, after, result, counter_after) ==
    LET bar == self.config.track_thresh + NewTrackMargin
        high == {STrack_new(d.bbox, d.score) :
                    d \in {e \in Range(call.detections) : e.score >= self.config.track_thresh}}
        makes(d) == \E c \in Range(call.created) :
                        /\ c.tlwh = d.tlwh /\ c.score = d.score
                        /\ c.start_frame = after.frame_id
                        /\ c.track_id > counter /\ c.track_id <= counter_after
                        /\ c.track_id \notin Ids(self.tracked_stracks) \cup Ids(self.lost_stracks)
                              \cup Ids(self.removed_stracks)
    IN  /\ Range(call.unmatched_new)
              = high \ (MatchedDets(call.first) \cup MatchedDets(call.third))
        /\ \A d \in Range(call.unmatched_new) : makes(d) <=> d.score >= bar
        /\ Len(call.created) = Cardinality({d \in Range(call.unmatched_new) : d.score >= bar})
        /\ Distinct(call.created)
        /\ counter_after = counter + Len(call.created)
        /\ (Empty(self) /\ \A d \in Range(call.detections) : d.score < bar)
              => result = <<>> /\ Empty(after) /\ counter_after = counter

\* C10: a high-score detection left unmatched by the first and the unconfirmed
\* association creates a new track iff its score is at least track_thresh +
\* 0.1; an update of an empty tracker with only detections below that bar
\* returns an empty set, leaves tracked, lost and removed empty and consumes no
\* id.
C10_NewTrackBar ==
    [][NewTrackRule(tracker, TRACK_ID_COUNTER, last', tracker', returned',
                    TRACK_ID_COUNTER')]_vars

\* an update left two high-score detections unmatched, one below the bar, and
\* created a track for the other alone
C10_Witness ==
    /\ Len(last.created) = 1
    /\ \E d \in Range(last.unmatched_new) :
          d.score >= tracker.config.track_thresh
             /\ d.score < tracker.config.track_thresh + NewTrackMargin

(***************************************************************************)
(* SpecExpiry: the track-expiry scenario on TrackerConfig::default(), the  *)
(* counter at 0: frame 1 has one detection of score 0.9, the frames 2 to   *)
(* 2 + max_time_lost have none, the frame after has one detection of score *)
(* 0.9 at most 2 px from the first.                                        *)
(***************************************************************************)
DefaultConfigs ==
    {[frame_rate |-> 30, track_buffer |-> 30, track_thresh |-> 50,
      match_thresh |-> 80]}

ExpiryOffsets == NearOffsets \cup {2 * FP}

ExpiryLast == tracker.max_time_lost + 3

ExpiryLists ==
    IF tracker.frame_id + 1 \in {1, ExpiryLast}
    THEN {<<d>> : d \in DetectionsOf(ExpiryOffsets, {90})}
    ELSE {<<>>}

InitExpiry == Start(DefaultConfigs)

NextExpiry == Frame(ExpiryLists, ExpiryLast)

SpecExpiry == InitExpiry /\ [][NextExpiry]_vars

\* the frames 2 to 2 + max_time_lost of the scenario return nothing; the track
\* of frame 1 is lost from frame 2 and removed by the sweep of frame
\* 2 + max_time_lost
ExpiryQuiet ==
    /\ tracker.frame_id \in 2..(ExpiryLast - 1) => returned = <<>>
    /\ tracker.frame_id \in 2..(ExpiryLast - 2) =>
          Ids(tracker.lost_stracks) = {1} /\ tracker.removed_stracks = <<>>
    /\ tracker.frame_id >= ExpiryLast - 1 =>
          /\ tracker.lost_stracks = <<>>
          /\ Len(tracker.removed_stracks) = 1
          /\ tracker.removed_stracks[1].track_id = 1
          /\ tracker.removed_stracks[1].state = "Removed"

\* C11, as stated: in the track-expiry scenario the frames 2 to
\* 2 + max_time_lost return nothing and the last frame returns exactly one
\* active track, whose id is 2, the old track having been moved to Removed.
C11_ExpiryReturnsNewTrack ==
    /\ ExpiryQuiet
    /\ tracker.frame_id = ExpiryLast =>
          /\ Len(returned) = 1
          /\ returned[1].track_id = 2
          /\ returned[1].is_activated

\* C11, amended: ... the last frame returns nothing: its detection creates the
\* track of id 2, which activate leaves unconfirmed (is_activated false, the
\* frame not being frame 1) and which is held in tracked_stracks, the old
\* track having been moved to Removed.
C11_ExpiryCreatesUnconfirmed ==
    /\ ExpiryQuiet
    /\ tracker.frame_id = ExpiryLast =>
          /\ returned = <<>>
          /\ Len(tracker.tracked_stracks) = 1
          /\ tracker.tracked_stracks[1].track_id = 2
          /\ tracker.tracked_stracks[1].state = "Tracked"
          /\ ~tracker.tracked_stracks[1].is_activated
          /\ tracker.tracked_stracks[1].start_frame = ExpiryLast
          /\ TRACK_ID_COUNTER = 2

\* the last frame of the scenario has been processed
C11_Witness ==
    /\ tracker.config \in DefaultConfigs
    /\ tracker.frame_id = ExpiryLast
    /\ Ids(tracker.removed_stracks) = {1}
    /\ last.detections # <<>>

\* the detections and the tracks of one update: each detection of the list is
\* used by at most one update, re_activate or activate, each track gets at most
\* one of them, and the tracks so obtained are the activated and the refind
\* lists, with no id twice
ConsumedOnce(self, call) ==
    LET matched == call.first \o call.second \o call.third
        received == call.activated_stracks \o call.refind_stracks
        is(s, d) == s.tlwh = d.bbox /\ s.score = d.score
        uses(d) == Cardinality({k \in 1..Len(matched) : is(matched[k].det, d)})
                      + Cardinality({k \in 1..Len(call.created) : is(call.created[k], d)})
        gets(id) == Cardinality({k \in 1..Len(matched) : matched[k].track.track_id = id})
                       + Cardinality({k \in 1..Len(call.created) :
                                         call.created[k].track_id = id})
    IN  /\ \A d \in Range(call.detections) : uses(d) <= 1
        /\ \A k \in 1..Len(matched) :
              \E d \in Range(call.detections) : is(matched[k].det, d)
        /\ \A k \in 1..Len(call.created) :
              \E d \in Range(call.detections) : is(call.created[k], d)
        /\ \A id \in Ids(self.tracked_stracks) \cup Ids(self.lost_stracks)
                        \cup Ids(call.created) : gets(id) <= 1
        /\ \A k \in 1..Len(matched) :
              /\ matched[k].after.track_id = matched[k].track.track_id
              /\ matched[k].track \in Range(Unconfirmed(self)) \cup Range(StrackPool(self))
        /\ Ids(received) = MatchedIds(matched) \cup Ids(call.created)
        /\ Len(received) = Len(matched) + Len(call.created)
        /\ Distinct(received)

\* C12: within one update every input detection is consumed by at most one
\* track (one update, re_activate or activate) and every track receives at most
\* one of update, re_activate and activate, so that each track id appears at
\* most once in the activated and the refind lists together.
C12_ConsumedOnce == [][ConsumedOnce(tracker, last')]_vars

\* an update of two detections matched one track in the first association and
\* another in the second
C12_Witness ==
    /\ Len(last.first) = 1
    /\ Len(last.second) = 1
    /\ Len(last.detections) = 2
    /\ Len(last.activated_stracks \o last.refind_stracks) = 2

\* update as a function of the tracker, the counter and the detections: the
\* triples <<tracker after, counter after, value returned>> it can yield, one
\* for each solution the three assignments can return
UpdateResults(self, counter, detections) ==
    LET frame == self.frame_id + 1
        dets == HighDetections(self, detections)
        dets_second == LowDetections(self, detections)
        unconfirmed == Unconfirmed(self)
        strack_pool == StrackPool(self)
        Third(a1, a2, a3) ==
            LET m1 == ProcessMatches(a1.matches, strack_pool, dets, frame)
                r_tracked == RTracked(strack_pool, a1.unmatched_tracks)
                detections_rem == DetectionsRem(dets, a1.unmatched_detections)
                m2 == ProcessMatches(a2.matches, r_tracked, dets_second, frame)
                created == NewStracks(self, detections_rem, a3.unmatched_detections,
                                      frame, counter)
                after == Reconcile(self, frame,
                             m1.activated \o m2.activated
                                \o ConfirmedNow(unconfirmed, detections_rem, a3.matches, frame)
                                \o created,
                             m1.refind \o m2.refind,
                             FreshLost(r_tracked, a2.unmatched_tracks)
                                \o SurvivingLost(self, frame),
                             DroppedUnconfirmed(unconfirmed, a3.unmatched_tracks)
                                \o ExpiredLost(self, frame))
            IN  <<after,
                  IF Len(created) = 0 THEN counter ELSE created[Len(created)].track_id,
                  Returned(after)>>
        Second(a1, a2) ==
            {Third(a1, a2, a3) :
                a3 \in linear_assignment(
                          UnconfirmedDists(unconfirmed,
                                           DetectionsRem(dets, a1.unmatched_detections)),
                          UnconfirmedThresh)}
        First(a1) ==
            UNION {Second(a1, a2) :
                      a2 \in linear_assignment(
                                SecondDists(RTracked(strack_pool, a1.unmatched_tracks),
                                            dets_second),
                                SecondThresh)}
    IN  UNION {First(a1) :
                  a1 \in linear_assignment(FirstDists(strack_pool, dets),
                                           CostThresh(self.config.match_thresh))}

(***************************************************************************)
(* SpecFloor: TrackerConfig::default() with track_buffer MaxTrackBuffer;   *)
(* boxes that coincide or overlap; scores below the floor of 0.1, at the   *)
(* floor, just above it, at track_thresh and above the new-track bar.      *)
(***************************************************************************)
FloorScores == {5, LowScoreFloor, LowScoreFloor + 1, 50, 90}

NextFloor == Frame(ListsOver(DetectionsOf({0, 1 * FP}, FloorScores), MaxDets), MaxFrame)

SpecFloor == InitNear /\ [][NextFloor]_vars

\* the detections of a list that are above the floor
AboveFloor(detections) == SelectSeq(detections, LAMBDA d : d.score > LowScoreFloor)

\* update yields for the list what it yields for the list without the
\* detections at or below the floor, the step taken included; a detection whose
\* score is track_thresh is among the high ones and not among the low ones
FloorRule(self, counter, call, after, counter_after, result) ==
    /\ UpdateResults(self, counter, call.detections)
          = UpdateResults(self, counter, AboveFloor(call.detections))
    /\ <<after, counter_after, result>>
          \in UpdateResults(self, counter, AboveFloor(call.detections))
    /\ \A d \in Range(call.detections) :
          d.score = self.config.track_thresh =>
              /\ STrack_new(d.bbox, d.score) \in Range(HighDetections(self, call.detections))
              /\ STrack_new(d.bbox, d.score) \notin Range(LowDetections(self, call.detections))

FrameCounted(self, call, after) ==
    /\ after.frame_id = self.frame_id + 1
    /\ \A t \in Range(call.activated_stracks \o call.refind_stracks) :
          t.frame_id = after.frame_id

\* C14: the frame counter is incremented exactly once per update call, before
\* anything else: a new tracker has frame_id 0 and each call adds one, so that
\* after N calls frame_id is N, whatever the detections were (empty lists
\* included).
C14_FrameCountsCalls ==
    /\ tracker.frame_id = 0
    /\ [][FrameCounted(tracker, last', tracker')]_vars

\* the last of MaxFrame calls had an empty list, an earlier one created a track
C14_Witness ==
    /\ tracker.frame_id = MaxFrame
    /\ last.detections = <<>>
    /\ TRACK_ID_COUNTER > 0

(***************************************************************************)
(* The process: MaxThreads threads, each with a tracker of its own, call   *)
(* update concurrently.  A call is three kinds of step: the associations   *)
(* (lines 54-195), which touch the thread's tracker alone; one step for    *)
(* each activate of the loop of new tracks, which draws an id from         *)
(* TRACK_ID_COUNTER with one atomic fetch_add; the sweep and the           *)
(* reconciliation (lines 207-235), local again.  handed lists the ids in   *)
(* the order the process handed them out, with a 0 for each call of        *)
(* reset_track_id_counter.                                                 *)
(***************************************************************************)
MaxThreads == 2
MaxThreadFrame == 2
MaxResets == 1

Threads == 1..MaxThreads

\* the store of a fetch_add that another thread's store overwrites
fetch_add_lost(counter) == counter

\* the value TRACK_ID_COUNTER holds after the fetch_add of next_track_id
fetch_add(counter) == counter + 1

\* a thread between two calls: its tracker and the value its last call returned
Idle(self, result) ==
    [lost_stracks |-> <<>>, removed_stracks |-> <<>>,
     activated_stracks |-> <<>>, refind_stracks |-> <<>>,
     tracker |-> self, returned |-> result,
     created |-> <<>>, pc |-> "idle", pending |-> <<>>]

\* Step 4: the unmatched detections that pass the score bar, in order
NewCandidates(self, detections_rem, unmatched_new) ==
    LET idx == SelectSeq(unmatched_new,
                   LAMBDA i : ~(detections_rem[i].score
                                  < self.config.track_thresh + NewTrackMargin))
    IN  [k \in 1..Len(idx) |-> detections_rem[idx[k]]]

\* the call up to the loop of new tracks
BeginUpdate(th, lists, frames) ==
    /\ threads[th].pc = "idle"
    /\ threads[th].tracker.frame_id < frames
    /\ \E self \in {threads[th].tracker} :
       \E frame \in {self.frame_id + 1} :
       \E strack_pool \in {StrackPool(self)} :
       \E detections \in lists :
       \E dets \in {HighDetections(self, detections)} :
       \E dets_second \in {LowDetections(self, detections)} :
       \E unconfirmed \in {Unconfirmed(self)} :
       \E a1 \in linear_assignment(FirstDists(strack_pool, dets),
                                   CostThresh(self.config.match_thresh)) :
       \E m1 \in {ProcessMatches(a1.matches, strack_pool, dets, frame)} :
       \E r_tracked \in {RTracked(strack_pool, a1.unmatched_tracks)} :
       \E detections_rem \in {DetectionsRem(dets, a1.unmatched_detections)} :
       \E a2 \in linear_assignment(SecondDists(r_tracked, dets_second), SecondThresh) :
       \E m2 \in {ProcessMatches(a2.matches, r_tracked, dets_second, frame)} :
       \E a3 \in linear_assignment(UnconfirmedDists(unconfirmed, detections_rem),
                                   UnconfirmedThresh) :
           threads' = [threads EXCEPT ![th] =
               [lost_stracks |-> FreshLost(r_tracked, a2.unmatched_tracks),
                removed_stracks |-> DroppedUnconfirmed(unconfirmed, a3.unmatched_tracks),
                activated_stracks |-> m1.activated \o m2.activated
                    \o ConfirmedNow(unconfirmed, detections_rem, a3.matches, frame),
                refind_stracks |-> m1.refind \o m2.refind,
                tracker |-> self, returned |-> threads[th].returned,
                created |-> <<>>, pc |-> "new_stracks",
                pending |-> NewCandidates(self, detections_rem, a3.unmatched_detections)]]
    /\ UNCHANGED <<tracker, TRACK_ID_COUNTER, returned, last, handed, applied>>

\* one activate of the loop of new tracks: the id is drawn and the counter
\* advanced in one atomic step
ActivateNext(th) ==
    /\ threads[th].pc = "new_stracks"
    /\ threads[th].pending # <<>>
    /\ \E track \in {activate(Head(threads[th].pending),
                              threads[th].tracker.frame_id + 1, TRACK_ID_COUNTER)} :
          /\ threads' = [threads EXCEPT ![th].created = Append(@, track),
                                        ![th].pending = Tail(@)]
          /\ handed' = Append(handed, track.track_id)
    /\ TRACK_ID_COUNTER' = fetch_add(TRACK_ID_COUNTER)
    /\ UNCHANGED <<tracker, returned, last, applied>>

\* the rest of the call: sweep, reconciliation, value returned
EndUpdate(th) ==
    /\ threads[th].pc = "new_stracks"
    /\ threads[th].pending = <<>>
    /\ \E self \in {threads[th].tracker} :
       \E frame \in {self.frame_id + 1} :
       \E after \in {Reconcile(self, frame,
                         threads[th].activated_stracks \o threads[th].created,
                         threads[th].refind_stracks,
                         threads[th].lost_stracks \o SurvivingLost(self, frame),
                         threads[th].removed_stracks \o ExpiredLost(self, frame))} :
           threads' = [threads EXCEPT ![th] = Idle(after, Returned(after))]
    /\ UNCHANGED <<tracker, TRACK_ID_COUNTER, returned, last, handed, applied>>

\* reset_track_id_counter, called by any thread at any moment
ResetCounter ==
    /\ Cardinality({i \in 1..Len(handed) : handed[i] = 0}) < MaxResets
    /\ TRACK_ID_COUNTER' = 0
    /\ handed' = Append(handed, 0)
    /\ UNCHANGED <<tracker, returned, last, threads, applied>>

\* the lists the threads call update with: boxes that coincide or are
\* disjoint, scores above the new-track bar
ThreadLists == ListsOver(DetectionsOf({0, 30 * FP}, {90}), MaxDets)

InitThreads ==
    /\ tracker \in {BYTETracker_new(c) : c \in NearConfigs}
    /\ TRACK_ID_COUNTER = 0
    /\ returned = <<>>
    /\ last = NoCall
    /\ threads \in [Threads -> {Idle(BYTETracker_new(c), <<>>) : c \in NearConfigs}]
    /\ handed = <<>>
    /\ applied = <<>>

NextThreads ==
    \E th \in Threads :
        \/ BeginUpdate(th, ThreadLists, MaxThreadFrame)
        \/ ActivateNext(th)
        \/ EndUpdate(th)

\* SpecThreads: the threads, the counter never reset
SpecThreads == InitThreads /\ [][NextThreads]_vars

NextProcess == NextThreads \/ ResetCounter

\* SpecProcess: the threads and up to MaxResets calls of reset_track_id_counter
SpecProcess == InitThreads /\ [][NextProcess]_vars

\* the step is an activate of thread th
Activation(th) == Len(threads'[th].created) = Len(threads[th].created) + 1

\* the id it gives to the new track
ActivationId(th) == threads'[th].created[Len(threads'[th].created)].track_id

\* the id an activation draws is not 0; it is 1 in a process that has drawn none
\* and right after a reset, and otherwise greater than the id drawn before it
IdRule(id) ==
    /\ id # 0
    /\ handed' = Append(handed, id)
    /\ TRACK_ID_COUNTER' = id
    /\ IF handed = <<>> \/ handed[Len(handed)] = 0
       THEN id = 1
       ELSE \A i \in 1..Len(handed) :
               (\A j \in i..Len(handed) : handed[j] # 0) => id > handed[i]

\* C15: every activation draws a non-zero id from the process-wide counter; as
\* long as reset_track_id_counter is not called, the id given to an activation
\* is greater than the id given to the activation before it in the process;
\* after reset_track_id_counter the next activation gets id 1.
C15_IdsAscend ==
    [][\A th \in Threads : Activation(th) => IdRule(ActivationId(th))]_vars

\* ids were drawn, the counter was reset, and the next activation drew id 1
C15_Witness ==
    \E i \in 2..(Len(handed) - 1) :
        /\ handed[i] = 0
        /\ handed[i - 1] > 1
        /\ handed[i + 1] = 1

\* every track a thread holds or is creating
Held(th) ==
    Range(threads[th].tracker.tracked_stracks) \cup Range(threads[th].tracker.lost_stracks)
        \cup Range(threads[th].tracker.removed_stracks) \cup Range(threads[th].created)

\* C16: tracker instances of one process, their update calls interleaved in any
\* order or run concurrently on different threads, never hand out the same
\* track id twice (the counter not being reset): no two activations draw the
\* same id, and no id is held by the trackers of two threads.
C16_NoIdTwice ==
    /\ \A i, j \in 1..Len(handed) : i # j => handed[i] # handed[j]
    /\ \A th \in Threads : {t.track_id : t \in Held(th)} \subseteq Range(handed)
    /\ \A th, other \in Threads :
          th # other => {t.track_id : t \in Held(th)} \cap {t.track_id : t \in Held(other)} = {}
    /\ TRACK_ID_COUNTER = Len(handed)

\* two threads are in their loops of new tracks at once and the ids each has
\* drawn so far alternate
C16_Witness ==
    \E th, other \in Threads :
        /\ threads[th].pc = "new_stracks"
        /\ threads[other].pc = "new_stracks"
        /\ Ids(threads[th].created) = {1, 3}
        /\ Ids(threads[other].created) = {2}
        /\ threads[other].pending # <<>>

\* the tracked and the lost list of an update after reconciliation, before the
\* duplicate removal
ReconciledTracked(call) ==
    SelectSeq(call.activated_stracks \o call.refind_stracks, LAMBDA t : t.state = "Tracked")

ReconciledLost(call) == sub_stracks(call.lost_stracks, ReconciledTracked(call))

\* a of the tracked list and b of the lost list overlap by more than 0.85
DuplicatePair(a, b) == iou(rect(a), rect(b)) > DupIouThresh

\* of each duplicate pair the one of smaller age, and a when the ages are
\* equal, is in no list of the tracker after the update, and its id in neither
\* the tracked nor the lost list
DuplicateRule(call, after) ==
    \A a \in Range(ReconciledTracked(call)) :
        \A b \in Range(ReconciledLost(call)) :
            DuplicatePair(a, b) =>
                \E gone \in {IF Age(a) > Age(b) THEN b ELSE a} :
                    /\ gone \notin Range(after.tracked_stracks) \cup Range(after.lost_stracks)
                                       \cup Range(after.removed_stracks)
                    /\ gone.track_id \notin Ids(after.tracked_stracks) \cup Ids(after.lost_stracks)

\* C17: for every pair (a in tracked, b in lost) whose boxes have IoU > 0.85
\* after reconciliation, the one with the smaller age frame_id - start_frame is
\* absent from the sets of the tracker after the update (the entry from all
\* three, its id from the tracked and the lost set), and when the ages are
\* equal it is the tracked entry a that is dropped.
C17_DuplicateDropped == [][DuplicateRule(last', tracker')]_vars

\* an update met a duplicate pair of equal ages and dropped the tracked entry,
\* keeping the lost one
C17_Witness ==
    \E a \in Range(ReconciledTracked(last)) :
        \E b \in Range(ReconciledLost(last)) :
            /\ DuplicatePair(a, b)
            /\ Age(a) = Age(b)
            /\ b \in Range(tracker.lost_stracks)

\* an update met a duplicate pair with the lost entry the younger, and dropped it
C17_WitnessLostDropped ==
    \E a \in Range(ReconciledTracked(last)) :
        \E b \in Range(ReconciledLost(last)) :
            /\ DuplicatePair(a, b)
            /\ Age(a) > Age(b)
            /\ a \in Range(tracker.tracked_stracks)

(***************************************************************************)
(* SpecAssign: linear_assignment on its own.  Init draws a cost matrix of  *)
(* up to MaxDim rows and up to MaxDim columns (none included), its costs   *)
(* among 0, 0.5 and 0.9, and a threshold, 0.5 (a cost of the matrix) or    *)
(* 0.7; Assign is the call.  applied.row_to_col keeps the solver's         *)
(* row-to-column vector the result was built from (none when the call      *)
(* returns before the solver).                                             *)
(***************************************************************************)
MaxDim == 3

CostValues == {0, IOUSC \div 2, 9 * (IOUSC \div 10)}

\* the cost matrices of up to dim rows and up to dim columns
CostMatrices(dim) ==
    UNION {{[rows |-> R, cols |-> C, at |-> a] : a \in [(1..R) \X (1..C) -> CostValues]} :
              R \in 0..dim, C \in 0..dim}

InitAssign ==
    /\ tracker \in {BYTETracker_new(c) : c \in NearConfigs}
    /\ TRACK_ID_COUNTER = 0
    /\ returned = <<>>
    /\ last = NoCall
    /\ threads = <<>>
    /\ handed = <<>>
    /\ applied \in {[cost_matrix |-> m, row_to_col |-> <<>>, thresh |-> t,
                     result |-> <<>>, pc |-> "call"] :
                       m \in CostMatrices(MaxDim), t \in {SecondThresh, UnconfirmedThresh}}

\* the row-to-column vectors of the solver that give the result
Proposals(cost_matrix, thresh, result) ==
    IF cost_matrix.rows = 0 \/ cost_matrix.cols = 0
    THEN {<<>>}
    ELSE {r \in lapjv(cost_matrix, Max(cost_matrix.rows, cost_matrix.cols)) :
             AssignmentOf(cost_matrix, thresh, r) = result}

Assign ==
    /\ applied.pc = "call"
    /\ \E result \in linear_assignment(applied.cost_matrix, applied.thresh) :
          \E row_to_col \in Proposals(applied.cost_matrix, applied.thresh, result) :
              applied' = [applied EXCEPT !.row_to_col = row_to_col,
                                         !.pc = "done",
                                         !.result = result]
    /\ UNCHANGED <<tracker, TRACK_ID_COUNTER, returned, last, threads, handed>>

NextAssign == Assign

SpecAssign == InitAssign /\ [][NextAssign]_vars

\* the rows and the columns of the matches of a result
MatchRows(result) == [k \in 1..Len(result.matches) |-> result.matches[k][1]]

MatchCols(result) == [k \in 1..Len(result.matches) |-> result.matches[k][2]]

\* how often x occurs in the sequence s
Occurrences(s, x) == Cardinality({k \in 1..Len(s) : s[k] = x})

\* C18: for every cost matrix and threshold, linear_assignment returns matches
\* in which no row index and no column index occurs more than once, every
\* matched pair lies inside the original dimensions, and every matched pair
\* (i, j) has cost[i][j] <= thresh.
C18_MatchesSound ==
    applied.pc = "done" =>
        /\ \A i \in 1..MaxDim : Occurrences(MatchRows(applied.result), i) <= 1
        /\ \A j \in 1..MaxDim : Occurrences(MatchCols(applied.result), j) <= 1
        /\ \A k \in 1..Len(applied.result.matches) :
              /\ applied.result.matches[k][1] \in 1..applied.cost_matrix.rows
              /\ applied.result.matches[k][2] \in 1..applied.cost_matrix.cols
              /\ applied.cost_matrix.at[applied.result.matches[k]] <= applied.thresh

\* a call on a square matrix of MaxDim rows matched one pair whose cost is the
\* threshold and left a pair above the threshold unmatched
C18_Witness ==
    /\ applied.pc = "done"
    /\ applied.cost_matrix.rows = MaxDim
    /\ applied.cost_matrix.cols = MaxDim
    /\ \E k \in 1..Len(applied.result.matches) :
          applied.cost_matrix.at[applied.result.matches[k]] = applied.thresh
    /\ Len(applied.result.unmatched_tracks) = 1
    /\ Len(applied.result.matches) = MaxDim - 1

\* C19: linear_assignment partitions its indices: for every R x C matrix (0 x C
\* and R x 0 included, which return no matches) every row index is either the
\* row of exactly one match or in unmatched_tracks, never both, and every
\* column index is either the column of exactly one match or in
\* unmatched_detections, never both; a row whose proposed pair is rejected by
\* the threshold or falls on padding is reported unmatched and its column stays
\* unmatched.
C19_IndicesPartitioned ==
    applied.pc = "done" =>
        /\ \A i \in 1..applied.cost_matrix.rows :
              Occurrences(MatchRows(applied.result), i)
                 + Occurrences(applied.result.unmatched_tracks, i) = 1
        /\ \A j \in 1..applied.cost_matrix.cols :
              Occurrences(MatchCols(applied.result), j)
                 + Occurrences(applied.result.unmatched_detections, j) = 1
        /\ Range(MatchRows(applied.result)) \cup Range(applied.result.unmatched_tracks)
              = 1..applied.cost_matrix.rows
        /\ Range(MatchCols(applied.result)) \cup Range(applied.result.unmatched_detections)
              = 1..applied.cost_matrix.cols
        /\ (applied.cost_matrix.rows = 0 \/ applied.cost_matrix.cols = 0) =>
              applied.result.matches = <<>>
        /\ \A i \in 1..Len(applied.row_to_col) :
              i <= applied.cost_matrix.rows =>
                 LET j == applied.row_to_col[i]
                 IN  IF j > applied.cost_matrix.cols
                     THEN i \in Range(applied.result.unmatched_tracks)
                     ELSE applied.cost_matrix.at[<<i, j>>] > applied.thresh =>
                             /\ i \in Range(applied.result.unmatched_tracks)
                             /\ j \in Range(applied.result.unmatched_detections)

\* a call on a matrix with more rows than columns left one row on padding and
\* rejected another by the threshold, whose column stays unmatched
C19_Witness ==
    /\ applied.pc = "done"
    /\ applied.cost_matrix.rows > applied.cost_matrix.cols
    /\ applied.row_to_col # <<>>
    /\ \E i, k \in 1..applied.cost_matrix.rows :
          /\ applied.row_to_col[i] > applied.cost_matrix.cols
          /\ applied.row_to_col[k] <= applied.cost_matrix.cols
          /\ applied.cost_matrix.at[<<k, applied.row_to_col[k]>>] > applied.thresh
          /\ applied.row_to_col[k] \in Range(applied.result.unmatched_detections)
    /\ Len(applied.result.matches) = 1

\* a call on a matrix without rows returns every column unmatched
C19_WitnessNoRows ==
    /\ applied.pc = "done"
    /\ applied.cost_matrix.rows = 0
    /\ Len(applied.result.unmatched_detections) = MaxDim

\* the pairs of a row-to-column vector inside an R x C matrix
InsidePairs(cost_matrix, row_to_col) ==
    {<<i, row_to_col[i]>> : i \in {k \in 1..Len(row_to_col) :
                                      k <= cost_matrix.rows /\ row_to_col[k] <= cost_matrix.cols}}

\* the reference: every one-to-one assignment of n pairs inside the matrix
Assignments(cost_matrix, n) ==
    {P \in SUBSET ((1..cost_matrix.rows) \X (1..cost_matrix.cols)) :
        /\ Cardinality(P) = n
        /\ \A p, q \in P : p # q => p[1] # q[1] /\ p[2] # q[2]}

TotalCost(cost_matrix, P) == SumOver([p \in P |-> cost_matrix.at[p]], P)

MaxOps == 5

\* two boxes of different place and height, a high and a middling score
TrackDetections ==
    {Detection_new(0, 0, 4 * FP, 4 * FP, 90),
     Detection_new(FP, 0, 5 * FP, 5 * FP, 55)}

TrackFrames == {1, 2}

InitTrack ==
    /\ tracker \in {BYTETracker_new(c) : c \in NearConfigs}
    /\ TRACK_ID_COUNTER = 0
    /\ returned = <<>>
    /\ last = NoCall
    /\ threads = <<>>
    /\ handed = <<>>
    /\ applied \in {[track |-> STrack_new(d.bbox, d.score), op |-> "new", ops |-> 0,
                     was |-> STrack_new(d.bbox, d.score)] : d \in TrackDetections}

\* the call of a method: the track it leaves
Called(op, track) ==
    /\ applied.ops < MaxOps
    /\ applied' = [track |-> track, op |-> op, ops |-> applied.ops + 1,
                   was |-> applied.track]
    /\ UNCHANGED <<tracker, returned, last, threads, handed>>

TrackActivate ==
    /\ \E frame_id \in TrackFrames :
          Called("activate", activate(applied.track, frame_id, TRACK_ID_COUNTER))
    /\ TRACK_ID_COUNTER' = fetch_add(TRACK_ID_COUNTER)

TrackReActivate ==
    \E d \in TrackDetections :
        \E new_id \in BOOLEAN :
            /\ Called("re_activate",
                      re_activate(applied.track, STrack_new(d.bbox, d.score), 2, new_id,
                                  TRACK_ID_COUNTER))
            /\ TRACK_ID_COUNTER' = IF new_id THEN fetch_add(TRACK_ID_COUNTER)
                                   ELSE TRACK_ID_COUNTER

TrackUpdate ==
    /\ \E d \in TrackDetections :
          Called("update", STrack_update(applied.track, STrack_new(d.bbox, d.score), 2))
    /\ UNCHANGED TRACK_ID_COUNTER

TrackPredict ==
    /\ Called("predict", predict(applied.track))
    /\ UNCHANGED TRACK_ID_COUNTER

TrackMarkLost ==
    /\ Called("mark_lost", mark_lost(applied.track))
    /\ UNCHANGED TRACK_ID_COUNTER

TrackMarkRemoved ==
    /\ Called("mark_removed", mark_removed(applied.track))
    /\ UNCHANGED TRACK_ID_COUNTER

NextTrack ==
    \/ TrackActivate
    \/ TrackReActivate
    \/ TrackUpdate
    \/ TrackPredict
    \/ TrackMarkLost
    \/ TrackMarkRemoved

SpecTrack == InitTrack /\ [][NextTrack]_vars

\* C21: invalid lifecycle transitions are rejected: for a track whose state is
\* Removed, none of activate, update, re_activate and mark_lost changes its
\* state; Removed is terminal.
C21_RemovedIsTerminal ==
    [][(applied.track.state = "Removed"
           /\ applied'.op \in {"activate", "update", "re_activate", "mark_lost"})
          => applied'.track.state = "Removed"]_vars


Advanced(mean, after, zeroed) ==
    /\ \A i \in 1..3 : after[i] = mean[i] + mean[i + 4]
    /\ \A i \in 5..7 : after[i] = mean[i]
    /\ IF zeroed THEN after[4] = mean[4] /\ after[8] = 0
       ELSE after[4] = mean[4] + mean[8] /\ after[8] = mean[8]

\* C30: predict advances the mean by one constant-velocity step (cx, cy, a and
\* h get their velocity added, the velocities are kept); for a track whose
\* state is not Tracked the height velocity is zeroed first, so that h is
\* unchanged and vh is 0 after predict while cx, cy and a still advance; a
\* track without filter moments is left unchanged.
C30_PredictAdvances ==
    [][applied'.op = "predict" =>
          IF applied.track.mean = None
          THEN applied'.track = applied.track
          ELSE /\ applied'.track.mean # None
               /\ Advanced(applied.track.mean[1], applied'.track.mean[1],
                           applied.track.state # "Tracked")]_vars

\* predict called on a Lost track that was moving and growing
C30_Witness ==
    /\ applied.op = "predict"
    /\ applied.was.state = "Lost"
    /\ applied.was.mean # None
    /\ applied.was.mean[1][5] # 0
    /\ applied.was.mean[1][8] # 0
    /\ applied.track.mean[1][1] # applied.was.mean[1][1]
    /\ applied.track.mean[1][8] = 0

\* predict called on a Tracked track that was growing
C30_WitnessTracked ==
    /\ applied.op = "predict"
    /\ applied.was.state = "Tracked"
    /\ applied.was.mean # None
    /\ applied.was.mean[1][8] # 0
    /\ applied.track.mean[1][4] # applied.was.mean[1][4]

\* predict called on a track that was never activated
C30_WitnessNoMoments ==
    /\ applied.op = "predict"
    /\ applied.was.mean = None


(***************************************************************************)
(* SpecConfig: the construction of a tracker.  Init draws the              *)
(* configuration handed to BYTETracker::new, the invalid ones included;    *)
(* applied keeps it and what the constructor returned.  The thresholds     *)
(* are f32: the two non-finite values drawn have codes no finite value of  *)
(* the model takes.                                                        *)
(***************************************************************************)
F32_INFINITY == 1000000000

F32_NAN == F32_INFINITY + 1

is_finite(x) == -F32_INFINITY < x /\ x < F32_INFINITY

FrameRates == {-30, 0, 30, 60}

Thresholds == {50, 80, F32_INFINITY, F32_NAN}

ConfigInputs ==
    {[frame_rate |-> fr, track_buffer |-> tb, track_thresh |-> tt, match_thresh |-> mt] :
        fr \in FrameRates, tb \in 0..MaxTrackBuffer, tt \in Thresholds, mt \in Thresholds}

InitConfig ==
    /\ tracker = None
    /\ TRACK_ID_COUNTER = 0
    /\ returned = <<>>
    /\ last = NoCall
    /\ threads = <<>>
    /\ handed = <<>>
    /\ applied \in {[config |-> c, result |-> None, pc |-> "new"] : c \in ConfigInputs}

\* BYTETracker::new: it returns Self, for every configuration
Construct ==
    /\ applied.pc = "new"
    /\ applied' = [applied EXCEPT !.result = Some(BYTETracker_new(applied.config)),
                                  !.pc = "constructed"]
    /\ UNCHANGED <<tracker, TRACK_ID_COUNTER, returned, last, threads, handed>>

NextConfig == Construct

SpecConfig == InitConfig /\ [][NextConfig]_vars

\* the configurations the claim calls invalid
InvalidConfig(config) ==
    \/ ~is_finite(config.track_thresh)
    \/ ~is_finite(config.match_thresh)
    \/ config.frame_rate <= 0

\* C22: constructing a tracker with an invalid configuration (a non-finite
\* threshold, or a frame_rate <= 0) yields a ConfigurationError at
\* construction and no tracker is produced.
C22_InvalidConfigRejected ==
    (applied.pc = "constructed" /\ InvalidConfig(applied.config))
        => applied.result = None


(***************************************************************************)
(* Two trackers in the same state that are handed the same list, the       *)
(* second after the other trackers of the process have activated others    *)
(* tracks: update is applied to the state before each step of Spec, at the *)
(* counter of the step and at the counter others ids further.              *)
(***************************************************************************)
MaxOthers == 2

\* what the caller of update can see of a result: the tracker and the value
\* returned
Observed(results) == {<<r[1], r[3]>> : r \in results}

\* a result with the ids of the tracks activated in its frame moved by others
Renumbered(r, others) ==
    LET Moved(tracks) ==
            [i \in 1..Len(tracks) |->
                IF tracks[i].start_frame = r[1].frame_id
                THEN [tracks[i] EXCEPT !.track_id = @ + others]
                ELSE tracks[i]]
    IN  <<[r[1] EXCEPT !.tracked_stracks = Moved(@),
                       !.lost_stracks = Moved(@),
                       !.removed_stracks = Moved(@)],
          r[2] + others,
          Moved(r[3])>>

SameResults(self, counter, detections) ==
    \E base \in {UpdateResults(self, counter, detections)} :
        \A others \in 1..MaxOthers :
            Observed(UpdateResults(self, counter + others, detections)) = Observed(base)

RenumberedResults(self, counter, detections) ==
    \E base \in {UpdateResults(self, counter, detections)} :
        \A others \in 0..MaxOthers :
            UpdateResults(self, counter + others, detections)
                = {Renumbered(r, others) : r \in base}

\* C23: update is a deterministic function of the tracker's own state and its
\* input: two trackers in the same state that receive the same detection list
\* return the same tracks (ids, states and counters) and end in the same
\* state, whether or not other trackers activated tracks in between.
C23_SameStateSameResult ==
    [][SameResults(tracker, TRACK_ID_COUNTER, last'.detections)]_vars

\* C23 as amended: the two results are the same but for the ids of the tracks
\* created in the call, which are larger by the number of tracks the other
\* trackers activated in between.
C23_SameUpToCreatedIds ==
    [][RenumberedResults(tracker, TRACK_ID_COUNTER, last'.detections)]_vars

\* an update that matched a track and created another
C23_Witness ==
    /\ Len(last.first) > 0
    /\ Len(last.created) > 0
    /\ tracker.frame_id > 1


\* C25: after every update at frame f every track the tracker holds has
\* start_frame <= frame_id <= f; every track of tracked_stracks has
\* frame_id = f and every track of lost_stracks has frame_id < f.
C25_FramesOrdered ==
    tracker.frame_id > 0 =>
        /\ \A t \in Range(tracker.tracked_stracks \o tracker.lost_stracks
                              \o tracker.removed_stracks) :
              t.start_frame <= t.frame_id /\ t.frame_id <= tracker.frame_id
        /\ \A t \in Range(tracker.tracked_stracks) : t.frame_id = tracker.frame_id
        /\ \A t \in Range(tracker.lost_stracks) : t.frame_id < tracker.frame_id

\* after the third update the tracker holds a track kept since the first
\* frame, a lost track and a removed one
C25_Witness ==
    /\ tracker.frame_id = 3
    /\ \E t \in Range(tracker.tracked_stracks) : t.start_frame = 1
    /\ tracker.lost_stracks # <<>>
    /\ tracker.removed_stracks # <<>>


(***************************************************************************)
(* SpecPipeline: integration/pipeline.rs.  A TrackerPipeline owns a        *)
(* detector and a tracker; the detector is any DetectionSource, so what    *)
(* detect returns is drawn: a detection list or an error.  applied keeps   *)
(* what detect returned and what process_frame returned.                   *)
(***************************************************************************)
DetectorErrors == {"decode", "inference"}

\* Result<Vec<Detection>, Error>, Ok and Err
DetectOk(detections) == [detections |-> detections, err |-> None]

DetectErr(error) == [detections |-> <<>>, err |-> Some(error)]

\* DetectionSource::detect: the values it can return
detect(lists) ==
    {DetectOk(l) : l \in lists} \cup {DetectErr(error) : error \in DetectorErrors}

\* the operator ? going on with the detections of an error
Propagated_never(detected) == FALSE

\* the operator ? of line 48: whether process_frame returns here
Propagated(detected) == detected.err # None

InitPipeline ==
    /\ tracker \in {BYTETracker_new(c) : c \in NearConfigs}
    /\ TRACK_ID_COUNTER = 0
    /\ returned = <<>>
    /\ last = NoCall
    /\ threads = <<>>
    /\ handed = <<>>
    /\ applied = [tracks |-> <<>>, err |-> None, detected |-> DetectOk(<<>>)]

process_frame(lists, frames) ==
    \E detected \in detect(lists) :
        IF Propagated(detected)
        THEN /\ applied' = [tracks |-> <<>>, err |-> detected.err, detected |-> detected]
             /\ UNCHANGED <<tracker, TRACK_ID_COUNTER, returned, last, threads, handed>>
        ELSE /\ tracker.frame_id < frames
             /\ \E strack_pool \in {StrackPool(tracker)} :
                   Update(detected.detections, strack_pool)
             /\ applied' = [tracks |-> returned', err |-> None, detected |-> detected]
             /\ UNCHANGED <<threads, handed>>

NextPipeline ==
    process_frame(ListsOver(DetectionsOf(NearOffsets, {90}), MaxDets), MaxFrame)

SpecPipeline == InitPipeline /\ [][NextPipeline]_vars

\* C26: when the detector's detect returns an error, process_frame returns
\* that same error and the tracker is not touched: its frame counter and its
\* tracked, lost and removed sets are unchanged, and no id is consumed.
C26_DetectorErrorPropagates ==
    [][applied'.detected.err # None =>
          /\ applied'.err = applied'.detected.err
          /\ tracker' = tracker
          /\ TRACK_ID_COUNTER' = TRACK_ID_COUNTER]_vars

\* detect fails on a pipeline whose tracker holds tracks
C26_Witness ==
    /\ applied.detected.err # None
    /\ applied.err = applied.detected.err
    /\ tracker.frame_id > 0
    /\ tracker.tracked_stracks # <<>>


(***************************************************************************)
(* SpecIou: Rect::iou on its own.  Init draws two rectangles with integer  *)
(* fields, the width and the height of either of any sign as Rect::new     *)
(* takes them; the step computes the iou both ways and of the first with   *)
(* itself.                                                                 *)
(***************************************************************************)
MaxCoord == 2

IouRects ==
    {Rect_new(x, y, width, height) :
        x \in 0..MaxCoord, y \in 0..1, width \in -1..MaxCoord, height \in -1..MaxCoord}

InitIou ==
    /\ tracker = None
    /\ TRACK_ID_COUNTER = 0
    /\ returned = <<>>
    /\ last = NoCall
    /\ threads = <<>>
    /\ handed = <<>>
    /\ applied \in {[a |-> a, b |-> b, pc |-> "new", forth |-> 0, back |-> 0, same |-> 0] :
                        a \in IouRects, b \in IouRects}

Iou ==
    /\ applied.pc = "new"
    /\ applied' = [applied EXCEPT !.pc = "done",
                                  !.forth = iou(applied.a, applied.b),
                                  !.back = iou(applied.b, applied.a),
                                  !.same = iou(applied.a, applied.a)]
    /\ UNCHANGED <<tracker, TRACK_ID_COUNTER, returned, last, threads, handed>>

NextIou == Iou

SpecIou == InitIou /\ [][NextIou]_vars

\* the unit cells a rectangle covers: none unless its width and height are
\* positive
Cells(r) ==
    {<<i, j>> : i \in r.x..(r.x + r.width - 1), j \in r.y..(r.y + r.height - 1)}

\* symmetry, range and the zero cases of iou
IouBasics ==
    /\ applied.forth = applied.back
    /\ 0 <= applied.forth /\ applied.forth <= IOUSC
    /\ Cells(applied.a) \cap Cells(applied.b) = {} => applied.forth = 0
    /\ (area(applied.a) = 0 \/ area(applied.b) = 0) => applied.forth = 0

LowScoreUse(self, call) ==
    /\ \A m \in Range(call.first) \cup Range(call.third) :
          m.det.score >= self.config.track_thresh
    /\ \A c \in Range(call.created) : c.score >= self.config.track_thresh
    /\ \A m \in Range(call.second) :
          /\ m.det.score < self.config.track_thresh
          /\ m.track.state = "Tracked"
          /\ m.track.is_activated
          /\ m.after.state = "Tracked"
    /\ \A r \in Range(call.refind_stracks) :
          \E m \in Range(call.first) :
              /\ m.after = r
              /\ m.track.state = "Lost"
              /\ m.det.score >= self.config.track_thresh

\* C28: a detection with score below track_thresh is used only by the second
\* association: it can update a confirmed Tracked track, but it never re-finds
\* a Lost track, never confirms an unconfirmed track and never creates a new
\* track.
C28_LowScoreSecondOnly == LowScoreUse(tracker, last)

\* a low-score detection within the second association's reach of a track
\* that was lost before the frame, and the track is still lost after it
C28_Witness ==
    /\ \E t \in Range(tracker.lost_stracks) :
          /\ t.frame_id + 1 < tracker.frame_id
          /\ \E d \in Range(last.detections) :
                /\ d.score < tracker.config.track_thresh
                /\ PlainDistance(rect(predict(t)), d.bbox) <= SecondThresh

\* a low-score detection updated a confirmed Tracked track
C28_WitnessUpdated ==
    \E m \in Range(last.second) :
        /\ m.det.score < tracker.config.track_thresh
        /\ m.after \in Range(tracker.tracked_stracks)


\* the tracks a tracker holds as tracked or lost
Live(self) == Range(self.tracked_stracks \o self.lost_stracks)

\* the call of update that took self to after at the given counter: a track
\* live before and after has kept its start_frame; every match kept the id and
\* the start_frame of its track; every live track has the id of a track live
\* before or was created in the call by activate, with an id past the counter
IdentityStable(self, call, after, counter) ==
    /\ \A t \in Live(self) :
          \A u \in Live(after) :
              u.track_id = t.track_id => u.start_frame = t.start_frame
    /\ \A m \in Range(call.first) \cup Range(call.second) \cup Range(call.third) :
          /\ m.after.track_id = m.track.track_id
          /\ m.after.start_frame = m.track.start_frame
    /\ \A u \in Live(after) :
          \/ \E t \in Live(self) : t.track_id = u.track_id
          \/ /\ u \in Range(call.created)
             /\ u.track_id > counter
             /\ u.start_frame = after.frame_id

\* C29: identity is stable across update: every track that is in tracked or
\* lost both before and after an update has the same track_id and the same
\* start_frame after it; ids are assigned only by activate on new detections,
\* and re_activate is never called with new_id = true.
C29_IdentityStable ==
    [][IdentityStable(tracker, last', tracker', TRACK_ID_COUNTER)]_vars

\* an update found a lost track again, two frames or more after its start, and
\* created another track
C29_Witness ==
    /\ \E r \in Range(last.refind_stracks) :
          /\ r \in Range(tracker.tracked_stracks)
          /\ r.start_frame + 1 < tracker.frame_id
    /\ last.created # <<>>


\* every track of the lost list before a call that is on the lost list after,
\* found by its id, is the same in every field
LostUntouched(self, after) ==
    \A t \in Range(self.lost_stracks) :
        \A u \in Range(after.lost_stracks) :
            u.track_id = t.track_id => u = t

\* C31: an update leaves every track that is in lost_stracks both before and
\* after the call unchanged in all fields, mean and covariance included: the
\* prediction made for a Lost track of the pool is applied to a copy and not
\* stored back.
C31_LostUntouched == [][LostUntouched(tracker, tracker')]_vars

\* a track has been on the lost list over two updates, and a prediction would
\* change its moments
C31_Witness ==
    \E t \in Range(tracker.lost_stracks) :
        /\ t.frame_id + 2 <= tracker.frame_id
        /\ t.mean # None
        /\ predict(t).covariance # t.covariance
        /\ t \in Range(last.lost_stracks)


\* the unconfirmed tracks of self that the unconfirmed association of the call
\* left unmatched
LeftUnconfirmed(self, call) ==
    {t \in Range(self.tracked_stracks) :
        /\ ~t.is_activated
        /\ \A m \in Range(call.third) : m.track.track_id # t.track_id}

\* the lost tracks of self that are overdue in the frame of the call
LeftOverdue(self, after) ==
    {t \in Range(self.lost_stracks) : after.frame_id - t.frame_id > self.max_time_lost}

\* the removed list after a call is the one before it followed by one entry,
\* of state Removed, for each unconfirmed track dropped and each lost track
\* expired
RemovedAppended(self, call, after) ==
    LET old == self.removed_stracks
        new == after.removed_stracks
        gone == LeftUnconfirmed(self, call) \cup LeftOverdue(self, after)
    IN  /\ Len(new) = Len(old) + Cardinality(gone)
        /\ SubSeq(new, 1, Len(old)) = old
        /\ \A i \in (Len(old) + 1)..Len(new) :
              /\ new[i].state = "Removed"
              /\ \E t \in gone : new[i] = mark_removed(t)

\* C32: removed_stracks is append-only: no update deletes or changes an entry
\* of it, its length never decreases, and it grows by one entry for every
\* unconfirmed track dropped and every Lost track expired, without any bound.
C32_RemovedAppendOnly == [][RemovedAppended(tracker, last', tracker')]_vars

\* an update appended an expired lost track to a removed list that held a
\* dropped unconfirmed track from an earlier update
C32_Witness ==
    /\ last.removed_stracks # <<>>
    /\ Len(tracker.removed_stracks) > Len(last.removed_stracks)
    /\ ~tracker.removed_stracks[1].is_activated
    /\ tracker.removed_stracks[Len(tracker.removed_stracks)].is_activated


(***************************************************************************)
(* SpecCrowd: the configuration and the boxes of SpecNear with up to       *)
(* MaxCrowd detections a frame, so that three tracks can lie within        *)
(* duplicate distance of one another.                                      *)
(***************************************************************************)
MaxCrowd == 3

NextCrowd == Frame(ListsOver(DetectionsOf(NearOffsets, {90}), MaxCrowd), MaxFrame + 2)

SpecCrowd == InitNear /\ [][NextCrowd]_vars

\* the entries duplicate removal dropped in a call: those of the reconciled
\* tracked and lost lists that are on neither list after it
DroppedDuplicates(call, after) ==
    {t \in Range(ReconciledTracked(call)) \cup Range(ReconciledLost(call)) :
        t \notin Range(after.tracked_stracks) \cup Range(after.lost_stracks)}

\* no dropped entry is on the removed list, as it is or marked Removed, and
\* none has state Removed
DroppedUnrecorded(call, after) ==
    \A t \in DroppedDuplicates(call, after) :
        /\ t.state # "Removed"
        /\ t \notin Range(after.removed_stracks)
        /\ mark_removed(t) \notin Range(after.removed_stracks)

\* C33: a track dropped by duplicate removal leaves the tracker without being
\* recorded: it is in none of tracked_stracks, lost_stracks and
\* removed_stracks after the update and its state is never set to Removed.
\* (That a track matched in this very frame can be dropped, and that a
\* tracked entry and a lost entry can be dropped together, is C33_Witness.)
C33_DroppedUnrecorded == [][DroppedUnrecorded(last', tracker')]_vars

\* an update dropped a tracked entry that the first association had matched
\* in that frame, for a lost entry no younger, and with it a younger lost
\* entry that the tracked entry overlaps
C33_Witness ==
    \E a \in Range(ReconciledTracked(last)) :
        \E b, c \in Range(ReconciledLost(last)) :
            /\ \E m \in Range(last.first) : m.after = a
            /\ DuplicatePair(a, b) /\ Age(a) <= Age(b)
            /\ DuplicatePair(a, c) /\ Age(a) > Age(c)
            /\ {a, c} \subseteq DroppedDuplicates(last, tracker)
            /\ b \in Range(tracker.lost_stracks)


(***************************************************************************)
(* SpecQuiet: a caller that hands the tracker any lists for up to MaxFrame *)
(* frames and from some frame on, of its choice, empty lists only.         *)
(* applied keeps the caller's phase, the frame the quiet phase began after *)
(* and the ids the tracker held then.  The quiet phase is followed for     *)
(* max_time_lost + 3 calls; that the caller goes on calling update is the  *)
(* fairness condition.                                                     *)
(***************************************************************************)
InitQuiet ==
    /\ tracker \in {BYTETracker_new(c) : c \in Configs}
    /\ TRACK_ID_COUNTER = 0
    /\ returned = <<>>
    /\ last = NoCall
    /\ threads = <<>>
    /\ handed = <<>>
    /\ applied = [pc |-> "busy", since |-> 0, held |-> {}]

Busy ==
    /\ applied.pc = "busy"
    /\ Frame(ListsOver(DetectionsOf(NearOffsets, {90}), MaxDets), MaxFrame)

GoQuiet ==
    /\ applied.pc = "busy"
    /\ applied' = [pc |-> "quiet", since |-> tracker.frame_id,
                   held |-> Ids(tracker.tracked_stracks \o tracker.lost_stracks)]
    /\ UNCHANGED <<tracker, TRACK_ID_COUNTER, returned, last, threads, handed>>

Quiet ==
    /\ applied.pc = "quiet"
    /\ Frame({<<>>}, applied.since + tracker.max_time_lost + 3)

NextQuiet == Busy \/ GoQuiet \/ Quiet

SpecQuiet == InitQuiet /\ [][NextQuiet]_vars /\ WF_vars(Quiet)

\* the tracks held when the quiet phase began are all on the removed list, the
\* tracked and the lost list are empty and the last update returned nothing
Expired ==
    /\ applied.pc = "quiet"
    /\ tracker.tracked_stracks = <<>>
    /\ tracker.lost_stracks = <<>>
    /\ returned = <<>>
    /\ applied.held \subseteq Ids(tracker.removed_stracks)

\* C34: from any reachable state, if update is then called repeatedly with no
\* detections, every track in tracked or lost is eventually moved to
\* removed_stracks, at the latest after max_time_lost + 2 further calls; from
\* then on tracked_stracks and lost_stracks are empty and every update returns
\* an empty set.
C34_QuietExpires ==
    /\ (applied.pc = "quiet") ~> Expired
    /\ []((applied.pc = "quiet"
             /\ tracker.frame_id >= applied.since + tracker.max_time_lost + 2)
            => Expired)
    /\ [][Expired => Expired']_vars

\* the quiet phase began with two tracks or more held, and one of them was
\* removed by the call max_time_lost + 2 and no sooner
C34_Witness ==
    /\ Expired
    /\ Cardinality(applied.held) >= 2
    /\ tracker.frame_id = applied.since + tracker.max_time_lost + 2
    /\ \E t \in Range(last.removed_stracks) : t.track_id \in applied.held

=============================================================================
